---- MODULE Spec2Model ----
(***************************************************************************)
(* RapidPark parking reservations: the reservation engine (interval-overlap *)
(* spot allocation, pricing, quote / reserve) of app/reservations.py and    *)
(* parking_app.py, and the Cartesia dialogue state machine of               *)
(* app/cartesia_agent.py.                                                   *)
(*                                                                          *)
(* Instants are whole seconds.  Text is a sequence of one-character         *)
(* strings, so that substring tests and case folding are computed.          *)
(***************************************************************************)
EXTENDS Integers, Sequences, FiniteSets, TLC

\* Python's None, for each kind of optional value of the model: a vehicle type
\* (an atomic string), a text (a sequence of characters), a number or instant
\* (all of which are >= 0), and a dict.
None == "None"

NoneText == <<"None">>

NoneNum == -1

NoneDict == [none |-> TRUE]

(***************************************************************************)
(* Configuration (module level of app/reservations.py and parking_app.py).  *)
(***************************************************************************)
LOT_NAME == "RapidPark-A"

\* int(os.getenv("LOT_CAPACITY", "50")): the model runs a small lot.
LOT_CAPACITY == 2

RATE_CENTS_PER_HOUR == 400

RATE_CENTS_PER_HOUR_CAR == 400

RATE_CENTS_PER_HOUR_MOTORCYCLE == 300

RATE_CENTS_PER_HOUR_TRUCK == 600

MIN_CHARGE_MINUTES == 60

(***************************************************************************)
(* Bounds of the model.                                                     *)
(***************************************************************************)
\* Rows the reservation table may hold.
MaxRes == 3

\* Upper end of the durations (in minutes) the pricing specification draws.
MaxPriceMinutes == 190

(***************************************************************************)
(* Text.                                                                    *)
(***************************************************************************)
UpperAlpha ==
    <<"A","B","C","D","E","F","G","H","I","J","K","L","M",
      "N","O","P","Q","R","S","T","U","V","W","X","Y","Z">>

LowerAlpha ==
    <<"a","b","c","d","e","f","g","h","i","j","k","l","m",
      "n","o","p","q","r","s","t","u","v","w","x","y","z">>

Digits == <<"0", "1", "2", "3", "4", "5", "6", "7", "8", "9">>

\* str(n) for an integer n >= 0.
RECURSIVE IntText(_)
IntText(n) ==
    IF n < 10 THEN <<Digits[n + 1]>>
    ELSE IntText(n \div 10) \o <<Digits[(n % 10) + 1]>>

\* str.lower() on one character.
LowerChar(c) ==
    IF \E i \in 1..26 : UpperAlpha[i] = c
    THEN LowerAlpha[CHOOSE i \in 1..26 : UpperAlpha[i] = c]
    ELSE c

\* str.upper() on one character.
UpperChar(c) ==
    IF \E i \in 1..26 : LowerAlpha[i] = c
    THEN UpperAlpha[CHOOSE i \in 1..26 : LowerAlpha[i] = c]
    ELSE c

\* str.lower()
Lower(t) == [i \in 1..Len(t) |-> LowerChar(t[i])]

\* str.upper()
Upper(t) == [i \in 1..Len(t) |-> UpperChar(t[i])]

\* Python's `kw in t` on strings: kw occurs in t as a contiguous substring.
Contains(t, kw) ==
    \E i \in 0..(Len(t) - Len(kw)) :
        \A j \in 1..Len(kw) : t[i + j] = kw[j]

\* Characters \s matches.
IsSpace(c) == c \in {" ", "\t", "\n"}

\* str.strip()
RECURSIVE LStrip(_)
LStrip(t) == IF t # <<>> /\ IsSpace(Head(t)) THEN LStrip(Tail(t)) ELSE t

RECURSIVE RStrip(_)
RStrip(t) ==
    IF t # <<>> /\ IsSpace(t[Len(t)]) THEN RStrip(SubSeq(t, 1, Len(t) - 1)) ELSE t

Strip(t) == LStrip(RStrip(t))

\* str.replace(' ', '')
RECURSIVE RemoveSpaces(_)
RemoveSpaces(t) ==
    IF t = <<>> THEN <<>>
    ELSE IF Head(t) = " " THEN RemoveSpaces(Tail(t))
    ELSE <<Head(t)>> \o RemoveSpaces(Tail(t))

(***************************************************************************)
(* Helpers of the reservation engine.                                       *)
(***************************************************************************)
\* A mutant of _overlaps: closed intervals, touching counts as overlap.
OverlapsClosed(a_start, a_end, b_start, b_end) ==
    ~(a_end < b_start \/ b_end < a_start)

\* A mutant of _overlaps: only an interval that starts inside the other one counts.
OverlapsStartInside(a_start, a_end, b_start, b_end) ==
    b_start <= a_start /\ a_start < b_end

\* _overlaps: return not (a_end <= b_start or b_end <= a_start)
_overlaps(a_start, a_end, b_start, b_end) ==
    ~(a_end <= b_start \/ b_end <= a_start)

\* Vehicle types are atomic strings; these two tables give str.lower() and
\* str.strip() on the spellings the model uses.
TypeLower(vt) ==
    CASE vt = "Car" -> "car"
      [] vt = "TRUCK" -> "truck"
      [] vt = "Motorcycle" -> "motorcycle"
      [] OTHER -> vt

TypeStrip(vt) ==
    CASE vt = " car " -> "car"
      [] OTHER -> vt

\* A mutant of _rate_for_vehicle_type: the motorcycle and truck rates are swapped.
RateSwapped(vehicle_type) ==
    LET vt == IF vehicle_type = None THEN "" ELSE TypeLower(TypeStrip(vehicle_type))
    IN  IF vt = "car" THEN RATE_CENTS_PER_HOUR_CAR
        ELSE IF vt = "motorcycle" THEN RATE_CENTS_PER_HOUR_TRUCK
        ELSE IF vt = "truck" THEN RATE_CENTS_PER_HOUR_MOTORCYCLE
        ELSE RATE_CENTS_PER_HOUR

\* vt = (vehicle_type or "").strip().lower()
_rate_for_vehicle_type(vehicle_type) ==
    LET vt == IF vehicle_type = None THEN "" ELSE TypeLower(TypeStrip(vehicle_type))
    IN  IF vt = "car" THEN RATE_CENTS_PER_HOUR_CAR
        ELSE IF vt = "motorcycle" THEN RATE_CENTS_PER_HOUR_MOTORCYCLE
        ELSE IF vt = "truck" THEN RATE_CENTS_PER_HOUR_TRUCK
        ELSE RATE_CENTS_PER_HOUR

Max(a, b) == IF a >= b THEN a ELSE b

\* math.ceil(n / 60) for an integer n >= 0.
CeilDiv60(n) == (n + 59) \div 60

\* A mutant of _compute_price_cents: whole hours only (floor instead of ceil).
PriceFloorHours(start, end, vehicle_type) ==
    LET total_minutes == Max(0, (end - start) \div 60)
        billable_minutes == Max(total_minutes, MIN_CHARGE_MINUTES)
    IN  (billable_minutes \div 60) * _rate_for_vehicle_type(vehicle_type)

\* _compute_price_cents: (end - start).total_seconds() // 60 floors the seconds.
_compute_price_cents(start, end, vehicle_type) ==
    LET total_minutes == Max(0, (end - start) \div 60)
        billable_minutes == Max(total_minutes, MIN_CHARGE_MINUTES)
        hours == CeilDiv60(billable_minutes)
        rate == _rate_for_vehicle_type(vehicle_type)
    IN  hours * rate

\* when.strftime('%m%d%H%M'): month, day, hour and minute of the instant; the
\* year and the seconds are dropped.  Instants count seconds from the start of
\* a year of 365 days, so the stamp is the minute of the year.
Stamp(when) == (when % (365 * 24 * 3600)) \div 60

\* A mutant of _generate_code: the start instant is left out of the code.
CodeWithoutStamp(vehicle_reg, when) ==
    <<"RP", Upper(RemoveSpaces(vehicle_reg)), 0>>

\* A mutant of _generate_code: the registration goes into the code as given.
CodeAsSpelled(vehicle_reg, when) ==
    <<"RP", vehicle_reg, Stamp(when)>>

\* _generate_code: f"RP-{vehicle_reg.replace(' ', '').upper()}-{when.strftime('%m%d%H%M')}"
_generate_code(vehicle_reg, when) ==
    <<"RP", Upper(RemoveSpaces(vehicle_reg)), Stamp(when)>>

\* The rows _assign_spot selects: this lot, confirmed, with a spot number.
SelectedRows(st, lot_name) ==
    {i \in DOMAIN st :
        /\ st[i].lot_name = lot_name
        /\ st[i].status = "confirmed"
        /\ st[i].spot_number # NoneNum}

\* taken_by_spot.get(spot, []): the intervals booked on a spot.
TakenBySpot(st, lot_name, spot) ==
    {<<st[i].start_time, st[i].end_time>> :
        i \in {j \in SelectedRows(st, lot_name) : st[j].spot_number = spot}}

\* all(not _overlaps(start, end, s, e) for s, e in intervals)
SpotFree(st, lot_name, spot, start, end) ==
    \A iv \in TakenBySpot(st, lot_name, spot) :
        ~_overlaps(start, end, iv[1], iv[2])

\* for spot in range(1, LOT_CAPACITY + 1): the ascending scan, from `spot` on.
RECURSIVE ScanSpots(_, _, _, _, _)
ScanSpots(st, lot_name, spot, start, end) ==
    IF spot > LOT_CAPACITY THEN NoneNum
    ELSE IF SpotFree(st, lot_name, spot, start, end) THEN spot
    ELSE ScanSpots(st, lot_name, spot + 1, start, end)

\* A mutant of _assign_spot: the scan starts at the last spot handed out.
AssignAfterLast(st, lot_name, start, end) ==
    ScanSpots(st, lot_name, IF st = <<>> THEN 1 ELSE 2, start, end)

\* A mutant of _assign_spot: the status and lot filters are dropped.
AssignAnyRow(st, lot_name, start, end) ==
    LET all == [i \in DOMAIN st |->
                   [st[i] EXCEPT !.lot_name = lot_name, !.status = "confirmed"]]
    IN  ScanSpots(all, lot_name, 1, start, end)

\* _assign_spot(session, lot_name, start, end)
_assign_spot(st, lot_name, start, end) ==
    ScanSpots(st, lot_name, 1, start, end)

\* _is_valid_email: re.match(r"^[^\s@]+@[^\s@]+\.[^\s@]+$", email).  The email
\* has no white space, exactly one "@" with text before it, and after it a "."
\* that is neither the first nor the last character of the domain.
_is_valid_email(email) ==
    /\ email # NoneText
    /\ email # <<>>
    /\ \A i \in 1..Len(email) : ~IsSpace(email[i])
    /\ \E a \in 2..Len(email) :
          /\ email[a] = "@"
          /\ \A i \in 1..Len(email) : email[i] = "@" => i = a
          /\ \E d \in (a + 2)..(Len(email) - 1) : email[d] = "."

\* Python truthiness of an Optional[str] text.
Truthy(v) == v # NoneText /\ v # <<>>

\* Python truthiness of a vehicle type.
TruthyType(v) == v # None /\ v # ""

\* A mutant of the vehicle-type check: the check is missing.
BadVehicleTypeNever(vehicle_type) == FALSE

\* vehicle_type.lower() not in {"car", "motorcycle", "truck"}
BadVehicleType(vehicle_type) ==
    TruthyType(vehicle_type) /\ TypeLower(vehicle_type) \notin {"car", "motorcycle", "truck"}

\* timedelta(hours=float(h)): the model carries hours in hundredths, 36 s each.
HoursDelta(centi_hours) == 36 * centi_hours

\* timedelta(minutes=int(m))
MinutesDelta(minutes) == 60 * minutes

\* round(mins / 60.0, 2), in hundredths of an hour (mins * 5 / 3 is never a tie).
RoundHours(mins) == (10 * mins + 3) \div 6

\* raise HTTPException(status_code=..., detail=...)
HTTPException(st, status_code, detail, consulted) ==
    [status |-> status_code, detail |-> detail, consulted |-> consulted,
     body |-> NoneDict, store |-> st]

\* A mutant of Reservation: the row stores the hourly rate, whatever the stay.
ReservationFlatPrice(data, spot, start, end, price, code) ==
    [customer_name |-> data.customer_name,
     email |-> data.email,
     vehicle_reg |-> data.vehicle_reg,
     vehicle_type |-> IF TruthyType(data.vehicle_type) THEN data.vehicle_type ELSE None,
     lot_name |-> LOT_NAME,
     spot_number |-> spot,
     start_time |-> start,
     end_time |-> end,
     price_cents |-> _rate_for_vehicle_type(data.vehicle_type),
     confirmation_code |-> code,
     status |-> "confirmed"]

\* The Reservation row create_reservation / reserve builds.
Reservation(data, spot, start, end, price, code) ==
    [customer_name |-> data.customer_name,
     email |-> data.email,
     vehicle_reg |-> data.vehicle_reg,
     vehicle_type |-> IF TruthyType(data.vehicle_type) THEN data.vehicle_type ELSE None,
     lot_name |-> LOT_NAME,
     spot_number |-> spot,
     start_time |-> start,
     end_time |-> end,
     price_cents |-> price,
     confirmation_code |-> code,
     status |-> "confirmed"]

\* lot_name.split("-")[-1].strip()[:1].upper() for the lot names of the model.
ZoneOf(lot_name) ==
    CASE lot_name = "RapidPark-A" -> "A"
      [] lot_name = "RapidPark-B" -> "B"
      [] OTHER -> "R"

\* _spot_label(lot_name, spot_number): f"{zone}{spot_number}", None for no spot.
_spot_label(lot_name, spot_number) ==
    IF spot_number = NoneNum \/ spot_number = 0 THEN NoneText
    ELSE <<ZoneOf(lot_name)>> \o IntText(spot_number)

\* ReservationOut / ReserveOut of a committed row with primary key id.
ReservationOut(id, res) ==
    [id |-> id,
     confirmation_code |-> res.confirmation_code,
     lot_name |-> res.lot_name,
     spot_number |-> res.spot_number,
     spot_label |-> _spot_label(res.lot_name, res.spot_number),
     vehicle_type |-> res.vehicle_type,
     start_time |-> res.start_time,
     end_time |-> res.end_time,
     price_cents |-> res.price_cents]

\* with Session(engine): _assign_spot, then session.add / commit / refresh, run
\* by one request at a time.
AllocateAndCommit(st, data, start, end, price, code) ==
    LET spot == _assign_spot(st, LOT_NAME, start, end)
    IN  IF spot = NoneNum
        THEN HTTPException(st, 409, "No spots available for the requested time range", TRUE)
        ELSE LET res == Reservation(data, spot, start, end, price, code)
             IN  [status |-> 200, detail |-> "", consulted |-> TRUE,
                  body |-> ReservationOut(Len(st) + 1, res),
                  store |-> Append(st, res)]

\* app/reservations.py create_reservation(data, background), at instant t.
create_reservation(st, t, data) ==
    IF ~Truthy(data.vehicle_reg) \/ ~Truthy(data.customer_name)
    THEN HTTPException(st, 400, "customer_name and vehicle_reg are required", FALSE)
    ELSE
    LET start == IF data.start_time # NoneNum THEN data.start_time ELSE t
    IN
    IF data.end_time = NoneNum /\ data.duration_hours = NoneNum
    THEN HTTPException(st, 400, "Provide end_time or duration_hours", FALSE)
    ELSE
    LET end == IF data.end_time # NoneNum THEN data.end_time
               ELSE start + HoursDelta(IF data.duration_hours # NoneNum
                                       THEN data.duration_hours ELSE 0)
    IN
    IF end <= start
    THEN HTTPException(st, 400, "end_time must be after start_time", FALSE)
    ELSE IF BadVehicleType(data.vehicle_type)
    THEN HTTPException(st, 400, "vehicle_type must be one of: car, motorcycle, truck", FALSE)
    ELSE IF Truthy(data.email) /\ ~_is_valid_email(data.email)
    THEN HTTPException(st, 400, "invalid email format", FALSE)
    ELSE AllocateAndCommit(st, data, start, end,
                           _compute_price_cents(start, end, data.vehicle_type),
                           _generate_code(data.vehicle_reg, start))

\* parking_app.py reserve(data, background), at instant t.
reserve(st, t, data) ==
    IF ~Truthy(data.vehicle_reg) \/ ~Truthy(data.customer_name)
    THEN HTTPException(st, 400, "customer_name and vehicle_reg are required", FALSE)
    ELSE IF BadVehicleType(data.vehicle_type)
    THEN HTTPException(st, 400, "vehicle_type must be one of: car, motorcycle, truck", FALSE)
    ELSE IF Truthy(data.email) /\ ~_is_valid_email(data.email)
    THEN HTTPException(st, 400, "invalid email format", FALSE)
    ELSE
    LET start == IF data.start_time # NoneNum THEN data.start_time ELSE t
    IN
    IF data.end_time = NoneNum /\ data.duration_hours = NoneNum
       /\ data.duration_minutes = NoneNum
    THEN HTTPException(st, 400, "Provide end_time, duration_hours, or duration_minutes", FALSE)
    ELSE
    LET end == IF data.end_time # NoneNum THEN data.end_time
               ELSE IF data.duration_hours # NoneNum
               THEN start + HoursDelta(data.duration_hours)
               ELSE start + MinutesDelta(data.duration_minutes)
    IN
    IF end <= start
    THEN HTTPException(st, 400, "end_time must be after start_time", FALSE)
    ELSE AllocateAndCommit(st, data, start, end,
                           _compute_price_cents(start, end, data.vehicle_type),
                           _generate_code(data.vehicle_reg, start))

\* A mutant of quote's last block: the probed spot is booked at once.
QuoteOutStoring(st, data, start, end) ==
    LET mins == (end - start) \div 60
        price == _compute_price_cents(start, end, data.vehicle_type)
        spot == _assign_spot(st, LOT_NAME, start, end)
    IN  [status |-> 200, detail |-> "", consulted |-> TRUE,
         body |-> [lot_name |-> LOT_NAME,
                   vehicle_reg |-> data.vehicle_reg,
                   vehicle_type |-> IF TruthyType(data.vehicle_type)
                                    THEN data.vehicle_type ELSE None,
                   start_time |-> start,
                   end_time |-> end,
                   duration_minutes |-> mins,
                   duration_hours |-> RoundHours(mins),
                   price_cents |-> price,
                   available |-> (spot # NoneNum),
                   suggested_spot |-> spot,
                   suggested_label |-> _spot_label(LOT_NAME, spot)],
         store |-> IF spot = NoneNum THEN st
                   ELSE Append(st, Reservation(
                            [data EXCEPT !.customer_name = <<>>, !.email = NoneText],
                            spot, start, end, price,
                            _generate_code(data.vehicle_reg, start)))]

\* QuoteOut for a resolved interval: the allocator is probed, nothing is stored.
QuoteOut(st, data, start, end) ==
    LET mins == (end - start) \div 60
        price == _compute_price_cents(start, end, data.vehicle_type)
        spot == _assign_spot(st, LOT_NAME, start, end)
    IN  [status |-> 200, detail |-> "", consulted |-> TRUE,
         body |-> [lot_name |-> LOT_NAME,
                   vehicle_reg |-> data.vehicle_reg,
                   vehicle_type |-> IF TruthyType(data.vehicle_type)
                                    THEN data.vehicle_type ELSE None,
                   start_time |-> start,
                   end_time |-> end,
                   duration_minutes |-> mins,
                   duration_hours |-> RoundHours(mins),
                   price_cents |-> price,
                   available |-> (spot # NoneNum),
                   suggested_spot |-> spot,
                   suggested_label |-> _spot_label(LOT_NAME, spot)],
         store |-> st]

\* A start_time / end_time string date_parser.isoparse rejects.
Malformed == -2

\* app/reservations.py quote(data), at instant t.  start_time and end_time
\* arrive as strings: an instant stands for its ISO-8601 text.
quote(st, t, data) ==
    IF ~Truthy(data.vehicle_reg)
    THEN HTTPException(st, 400, "vehicle_reg is required", FALSE)
    ELSE IF BadVehicleType(data.vehicle_type)
    THEN HTTPException(st, 400, "vehicle_type must be one of: car, motorcycle, truck", FALSE)
    ELSE IF data.start_time = Malformed
    THEN HTTPException(st, 400, "start_time must be ISO-8601", FALSE)
    ELSE
    LET start == IF data.start_time # NoneNum THEN data.start_time ELSE t
    IN
    IF data.end_time = Malformed
    THEN HTTPException(st, 400, "end_time must be ISO-8601", FALSE)
    ELSE IF data.end_time = NoneNum /\ data.duration_hours = NoneNum
            /\ data.duration_minutes = NoneNum
    THEN HTTPException(st, 400, "Provide end_time, duration_hours, or duration_minutes", FALSE)
    ELSE
    LET end == IF data.end_time # NoneNum THEN data.end_time
               ELSE IF data.duration_hours # NoneNum
               THEN start + HoursDelta(data.duration_hours)
               ELSE start + MinutesDelta(data.duration_minutes)
    IN
    IF end <= start
    THEN HTTPException(st, 400, "end_time must be after start_time", FALSE)
    ELSE QuoteOut(st, data, start, end)

(***************************************************************************)
(* Speech extractors: what re and dateutil compute on the caller's words.   *)
(***************************************************************************)
\* \d
IsDigit(c) == \E i \in 1..10 : Digits[i] = c

\* int(c) of one digit
DigitVal(c) == (CHOOSE i \in 1..10 : Digits[i] = c) - 1

\* [A-Z]
IsUpperLetter(c) == \E i \in 1..26 : UpperAlpha[i] = c

\* \w
IsWordChar(c) ==
    \/ IsDigit(c)
    \/ c = "_"
    \/ \E i \in 1..26 : UpperAlpha[i] = c \/ LowerAlpha[i] = c

\* t[i] exists and is a word character.
WordAt(t, i) == i \in 1..Len(t) /\ IsWordChar(t[i])

\* \b just before t[p]: one side is a word character, the other is not.
Boundary(t, p) == WordAt(t, p - 1) # WordAt(t, p)

\* t[p..] begins with kw.
StartsWithAt(t, p, kw) ==
    /\ p >= 1
    /\ p + Len(kw) - 1 <= Len(t)
    /\ \A j \in 1..Len(kw) : t[p + j - 1] = kw[j]

\* str.replace(old, new): every occurrence, left to right, without overlap.
RECURSIVE Replace(_, _, _)
Replace(t, old, new) ==
    IF t = <<>> THEN <<>>
    ELSE IF StartsWithAt(t, 1, old)
    THEN new \o Replace(SubSeq(t, Len(old) + 1, Len(t)), old, new)
    ELSE <<Head(t)>> \o Replace(Tail(t), old, new)

\* The index after the run of digits that starts at i (i itself when there is none).
RECURSIVE DigitsEnd(_, _)
DigitsEnd(t, i) ==
    IF i <= Len(t) /\ IsDigit(t[i]) THEN DigitsEnd(t, i + 1) ELSE i

\* The index after the run of white space that starts at i.
RECURSIVE SpacesEnd(_, _)
SpacesEnd(t, i) ==
    IF i <= Len(t) /\ IsSpace(t[i]) THEN SpacesEnd(t, i + 1) ELSE i

\* int(t[i..j]) of a run of digits (0 for the empty run).
RECURSIVE ToInt(_, _, _)
ToInt(t, i, j) ==
    IF j < i THEN 0 ELSE 10 * ToInt(t, i, j - 1) + DigitVal(t[j])

RECURSIVE Pow10(_)
Pow10(k) == IF k = 0 THEN 1 ELSE 10 * Pow10(k - 1)

\* The least element of a non-empty set of integers.
Min(S) == CHOOSE x \in S : \A y \in S : x <= y

\* re.split(r"\s+", t) of a text without leading or trailing white space.
RECURSIVE SplitWords(_)

\* The word before the white space at t[i], then the words after it.
SplitAt(t, i) ==
    <<SubSeq(t, 1, i - 1)>> \o SplitWords(SubSeq(t, SpacesEnd(t, i), Len(t)))

\* The words of t, whose white space is at the indices `stops`.
SplitAtFirst(t, stops) == IF stops = {} THEN <<t>> ELSE SplitAt(t, Min(stops))

SplitWords(t) ==
    IF t = <<>> THEN <<>> ELSE SplitAtFirst(t, {i \in 1..Len(t) : IsSpace(t[i])})

\* "".join(parts)
RECURSIVE Join(_)
Join(parts) == IF parts = <<>> THEN <<>> ELSE Head(parts) \o Join(Tail(parts))

\* str.strip(chars) and str.rstrip(chars) for a set of characters.
RECURSIVE LStripChars(_, _)
LStripChars(t, chars) ==
    IF t # <<>> /\ Head(t) \in chars THEN LStripChars(Tail(t), chars) ELSE t

RECURSIVE RStripChars(_, _)
RStripChars(t, chars) ==
    IF t # <<>> /\ t[Len(t)] \in chars
    THEN RStripChars(SubSeq(t, 1, Len(t) - 1), chars) ELSE t

StripChars(t, chars) == LStripChars(RStripChars(t, chars), chars)

\* re.sub(c + "+", c, t): runs of the character c collapse to one.
RECURSIVE Collapse(_, _)
Collapse(t, c) ==
    IF Len(t) < 2 THEN t
    ELSE IF t[1] = c /\ t[2] = c THEN Collapse(Tail(t), c)
    ELSE <<Head(t)>> \o Collapse(Tail(t), c)

\* str.count(c)
Count(t, c) == Cardinality({i \in 1..Len(t) : t[i] = c})

\* extract_vehicle_info: the keyword tests on text_lower = text.lower().
VehicleTypeOf(text_lower) ==
    IF Contains(text_lower, <<"m", "o", "t", "o", "r", "c", "y", "c", "l", "e">>) \/ Contains(text_lower, <<"b", "i", "k", "e">>)
       \/ Contains(text_lower, <<"m", "o", "t", "o", "r", "b", "i", "k", "e">>)
    THEN "motorcycle"
    ELSE IF Contains(text_lower, <<"t", "r", "u", "c", "k">>) \/ Contains(text_lower, <<"v", "a", "n">>)
    THEN "truck"
    ELSE IF Contains(text_lower, <<"c", "a", "r">>) \/ Contains(text_lower, <<"s", "e", "d", "a", "n">>)
            \/ Contains(text_lower, <<"s", "u", "v">>)
    THEN "car"
    ELSE None

\* \b[A-Z]{2}\d{2}[A-Z]{2}\d{4}\b at t[i..]
RegLongAt(t, i) ==
    /\ i + 9 <= Len(t)
    /\ Boundary(t, i)
    /\ \A k \in {0, 1, 4, 5} : IsUpperLetter(t[i + k])
    /\ \A k \in {2, 3, 6, 7, 8, 9} : IsDigit(t[i + k])
    /\ Boundary(t, i + 10)

\* \b[A-Z]{3}-?\d{4}\b at t[i..]: the length of the match, 0 when there is none.
RegShortAt(t, i) ==
    IF ~(i + 6 <= Len(t) /\ Boundary(t, i) /\ \A k \in 0..2 : IsUpperLetter(t[i + k]))
    THEN 0
    ELSE IF t[i + 3] = "-"
    THEN IF i + 7 <= Len(t) /\ (\A k \in 4..7 : IsDigit(t[i + k])) /\ Boundary(t, i + 8)
         THEN 8 ELSE 0
    ELSE IF (\A k \in 3..6 : IsDigit(t[i + k])) /\ Boundary(t, i + 7)
    THEN 7 ELSE 0

\* The length of the match of reg_pattern at t[i..]: the first alternative
\* is tried first.
RegAt(t, i) == IF RegLongAt(t, i) THEN 10 ELSE RegShortAt(t, i)

\* match.group(0) of the match of reg_pattern that starts at t[i].
RegText(t, i) == SubSeq(t, i, i + RegAt(t, i) - 1)

\* group(0) of the leftmost of the matches, which start at the indices `hits`.
RegFound(t, hits) == IF hits = {} THEN NoneText ELSE RegText(t, Min(hits))

\* re.search(reg_pattern, t) for t = text.upper()
VehicleRegOf(t) == RegFound(t, {i \in 1..Len(t) : RegAt(t, i) > 0})

\* extract_vehicle_info(text) -> (vehicle_reg, vehicle_type)
extract_vehicle_info(text) ==
    [vehicle_reg |-> VehicleRegOf(Upper(text)), vehicle_type |-> VehicleTypeOf(Lower(text))]

Day == 24 * 3600

\* Two decimal digits of n < 100.
TwoDigits(n) == <<Digits[(n \div 10) + 1], Digits[(n % 10) + 1]>>

\* when.strftime("%Y-%m-%d"): instant 0 is 2026-01-01T00:00:00, and the model
\* stays within January.
DateText(when) == <<"2", "0", "2", "6", "-", "0", "1", "-">> \o TwoDigits((when \div Day) + 1)

\* The day a "%Y-%m-%d" token of January 2026 names, counted from 0; NoneNum
\* when the token is no such date.
DayOfDateText(tok) ==
    IF Len(tok) = 10 /\ StartsWithAt(tok, 1, <<"2", "0", "2", "6", "-", "0", "1", "-">>)
       /\ IsDigit(tok[9]) /\ IsDigit(tok[10]) /\ ToInt(tok, 9, 10) \in 1..31
    THEN ToInt(tok, 9, 10) - 1
    ELSE NoneNum

\* dateutil's _adjust_ampm on hour h of a reading with the marker ampm; NoneNum
\* when the hour cannot carry a marker.
AdjustAmPm(h, ampm) ==
    IF h > 12 THEN NoneNum
    ELSE IF ampm = <<"p", "m">> /\ h < 12 THEN h + 12
    ELSE IF ampm = <<"a", "m">> /\ h = 12 THEN 0
    ELSE h

\* The hour an "H am" / "H pm" reading names: tok is the digits, ampm the
\* lower-case marker; NoneNum when tok is not one or two digits.
HourOf(tok, ampm) ==
    IF tok = <<>> \/ Len(tok) > 2 \/ ~(\A i \in 1..Len(tok) : IsDigit(tok[i]))
    THEN NoneNum
    ELSE AdjustAmPm(ToInt(tok, 1, Len(tok)), ampm)

\* The last two characters of a word, in lower case.
Tail2(word) == Lower(SubSeq(word, Len(word) - 1, Len(word)))

\* The hour of the words that follow the date: "H am", "H pm", "Ham", "Hpm";
\* NoneNum for anything else.
HourOfWords(words) ==
    IF Len(words) = 2 /\ Lower(words[2]) \in {<<"a", "m">>, <<"p", "m">>}
    THEN HourOf(words[1], Lower(words[2]))
    ELSE IF Len(words) = 1 /\ Len(words[1]) >= 3 /\ Tail2(words[1]) \in {<<"a", "m">>, <<"p", "m">>}
    THEN HourOf(SubSeq(words[1], 1, Len(words[1]) - 2), Tail2(words[1]))
    ELSE NoneNum

\* Leading "at" words, which dateutil jumps over.
RECURSIVE DropAt(_)
DropAt(words) ==
    IF words # <<>> /\ Lower(Head(words)) = <<"a", "t">> THEN DropAt(Tail(words)) ELSE words

\* default.replace(hour=h): the reading sets the hour only, the minutes and
\* seconds stay those of `default`.
ReplaceHour(day, h, default) ==
    IF h = NoneNum THEN Malformed ELSE day * Day + h * 3600 + (default % 3600)

\* Where the colon of a clock reading stands in tok; 0 when there is none.
ColonAt(tok) ==
    IF \E i \in 1..Len(tok) : tok[i] = ":" THEN CHOOSE i \in 1..Len(tok) : tok[i] = ":" ELSE 0

\* The minute of the day of hour h and minute m; NoneNum when dateutil has
\* refused the hour or datetime.replace refuses the value.
HourMinute(h, m) == IF h = NoneNum \/ h > 23 \/ m > 59 THEN NoneNum ELSE h * 60 + m

\* The minute of the day an "H:MM" reading with the colon at c names; ampm is
\* the marker, <<>> when there is none.
ClockAt(tok, c, ampm) ==
    IF c \notin 2..3 \/ (Len(tok) - c) \notin 1..2
       \/ ~(\A i \in 1..Len(tok) : i = c \/ IsDigit(tok[i]))
    THEN NoneNum
    ELSE HourMinute(IF ampm = <<>> THEN ToInt(tok, 1, c - 1) ELSE AdjustAmPm(ToInt(tok, 1, c - 1), ampm),
                    ToInt(tok, c + 1, Len(tok)))

\* The minute of the day of the words "H:MM", "H:MM am", "H:MMpm"; NoneNum
\* for anything else.
MinutesOfWords(words) ==
    IF Len(words) = 2 /\ Lower(words[2]) \in {<<"a", "m">>, <<"p", "m">>}
    THEN ClockAt(words[1], ColonAt(words[1]), Lower(words[2]))
    ELSE IF Len(words) = 1 /\ Len(words[1]) >= 3 /\ Tail2(words[1]) \in {<<"a", "m">>, <<"p", "m">>}
    THEN ClockAt(SubSeq(words[1], 1, Len(words[1]) - 2), ColonAt(words[1]), Tail2(words[1]))
    ELSE IF Len(words) = 1 THEN ClockAt(words[1], ColonAt(words[1]), <<>>)
    ELSE NoneNum

\* default.replace(hour=h, minute=m): the seconds stay those of `default`.
ReplaceMinutes(day, m, default) ==
    IF m = NoneNum THEN Malformed ELSE day * Day + m * 60 + (default % 60)

\* The instant of the words `rest` on the day `day`.
ParseClock(day, rest, default) ==
    IF rest = <<>> THEN day * Day + (default % Day)
    ELSE IF ColonAt(Head(rest)) # 0 THEN ReplaceMinutes(day, MinutesOfWords(rest), default)
    ELSE ReplaceHour(day, HourOfWords(rest), default)

\* The instant of a reading whose first word names the day d0, or names no
\* day (d0 = NoneNum): then the day is that of `default`.
ParseWords(words, d0, default) ==
    IF d0 # NoneNum THEN ParseClock(d0, DropAt(Tail(words)), default)
    ELSE ParseClock(default \div Day, words, default)

\* The words of a reading that has any.
ParseReading(words, default) ==
    IF words = <<>> THEN Malformed
    ELSE ParseWords(words, DayOfDateText(Head(words)), default)

\* date_parser.parse(text, default=now) on the readings the callers of the
\* model use: an optional 2026-01-DD date, then an optional clock reading
\* with am / pm.  A field the text does not give is taken from `default`:
\* the day when there is no date, the minutes and seconds always.
\* Malformed: dateutil raises.
DateutilParse(text, default) == ParseReading(DropAt(SplitWords(Strip(text))), default)

\* The body an API call of the dialogue gets back, or the failure it raises on.
ApiOk(body) == [status |-> 200, body |-> body]

ApiError(status_code) == [status |-> status_code, body |-> NoneDict]

\* parse_arrival: "today" / "tomorrow" give way to the date.
RelativeDay(t, text, lowered) ==
    IF Contains(lowered, <<"t", "o", "d", "a", "y">>) THEN Replace(lowered, <<"t", "o", "d", "a", "y">>, DateText(t))
    ELSE IF Contains(lowered, <<"t", "o", "m", "o", "r", "r", "o", "w">>) THEN Replace(lowered, <<"t", "o", "m", "o", "r", "r", "o", "w">>, DateText(t + Day))
    ELSE text

\* A mutant of ArrivalOut: five minutes in the past is already the past.
ArrivalOutInclusive(t, dt) ==
    IF dt = Malformed THEN ApiError(400)
    ELSE ApiOk([start_time |-> IF dt <= t - 5 * 60 THEN dt + Day ELSE dt])

\* parse_arrival: a reading more than five minutes in the past moves a day on.
ArrivalOut(t, dt) ==
    IF dt = Malformed THEN ApiError(400)
    ELSE ApiOk([start_time |-> IF dt < t - 5 * 60 THEN dt + Day ELSE dt])

\* parse_arrival: the instant date_parser.parse reads from the stripped
\* utterance, before the rule of the past is applied; Malformed when it raises.
ArrivalReading(t, text) ==
    DateutilParse(Replace(RelativeDay(t, text, Lower(text)), <<" ", "a", "t", " ">>, <<" ">>), t)

\* parse_arrival on the stripped utterance.
ParseArrivalText(t, text) ==
    IF text = <<>> THEN ApiError(400)
    ELSE ArrivalOut(t, ArrivalReading(t, text))

\* app/reservations.py parse_arrival(payload), at instant t.
parse_arrival(t, utterance) ==
    ParseArrivalText(t, IF utterance = NoneText THEN <<>> ELSE Strip(utterance))

HourUnits == {<<"h", "o", "u", "r", "s">>, <<"h", "o", "u", "r">>, <<"h", "r", "s">>, <<"h", "r">>, <<"h">>}

MinuteUnits == {<<"m", "i", "n", "u", "t", "e", "s">>, <<"m", "i", "n", "u", "t", "e">>, <<"m", "i", "n", "s">>, <<"m", "i", "n">>, <<"m">>}

\* (?:unit|...)\b at t[p..]
UnitAt(t, p, units) ==
    \E u \in units : StartsWithAt(t, p, u) /\ Boundary(t, p + Len(u))

\* The index after (?:\.\d+)? matched at t[j..].
FractionEnd(t, j) ==
    IF j + 1 <= Len(t) /\ t[j] = "." /\ IsDigit(t[j + 1]) THEN DigitsEnd(t, j + 1) ELSE j

\* The index after \d+(?:\.\d+)? matched at t[i..].
DecimalEnd(t, i) == FractionEnd(t, DigitsEnd(t, i))

\* (\d+(?:\.\d+)?)\s*(?:hours|hour|hrs|hr|h)\b matches at t[i..].
HoursAt(t, i) ==
    /\ i <= Len(t)
    /\ IsDigit(t[i])
    /\ UnitAt(t, SpacesEnd(t, DecimalEnd(t, i)), HourUnits)

\* (\d+)\s*(?:minutes|minute|mins|min|m)\b matches at t[i..].
MinutesAt(t, i) ==
    /\ i <= Len(t)
    /\ IsDigit(t[i])
    /\ UnitAt(t, SpacesEnd(t, DigitsEnd(t, i)), MinuteUnits)

\* \s+(\d+)\s*(?:unit|...)\b matches at t[i..], and the number starts at t[p].
SpacedNumberAt(t, i, p, units) ==
    /\ p > i
    /\ p <= Len(t)
    /\ IsDigit(t[p])
    /\ UnitAt(t, SpacesEnd(t, DigitsEnd(t, p)), units)

\* for\s+(\d+)\s*(?:unit|...)\b matches at t[i..].
ForAt(t, i, units) ==
    StartsWithAt(t, i, <<"f", "o", "r">>) /\ SpacedNumberAt(t, i + 3, SpacesEnd(t, i + 3), units)

\* int(group(1)) of the whole number that starts at t[p].
NumberAt(t, p) == ToInt(t, p, DigitsEnd(t, p) - 1)

\* round(n / d) for integers n >= 0, d > 0: Python rounds a tie to the even side.
RoundHalfEven(n, d) ==
    IF 2 * (n % d) < d THEN n \div d
    ELSE IF 2 * (n % d) > d THEN (n \div d) + 1
    ELSE IF (n \div d) % 2 = 0 THEN n \div d ELSE (n \div d) + 1

\* int(round(float(t[i..e-1]) * 60)): the whole part ends before j, the
\* fraction (if any) runs from j + 1 to e - 1.
DecimalToMinutes(t, i, j, e) ==
    IF e > j
    THEN RoundHalfEven(60 * (ToInt(t, i, j - 1) * Pow10(e - j - 1) + ToInt(t, j + 1, e - 1)),
                       Pow10(e - j - 1))
    ELSE 60 * ToInt(t, i, j - 1)

\* int(round(hours * 60)) for the decimal number that starts at t[i].
HoursToMinutes(t, i) == DecimalToMinutes(t, i, DigitsEnd(t, i), DecimalEnd(t, i))

\* return total_minutes if total_minutes > 0 else None
Positive(total_minutes) == IF total_minutes > 0 THEN total_minutes ELSE NoneNum

\* hours = float(m.group(1)) for the leftmost match of m, else 0.0 (in minutes).
HoursFound(text, m) == IF m # {} THEN HoursToMinutes(text, Min(m)) ELSE 0

\* minutes = int(m2.group(1)) for the leftmost match of m2, else 0.
MinutesFound(text, m2) == IF m2 # {} THEN NumberAt(text, Min(m2)) ELSE 0

\* The "for X hours" / "for X minutes" retry: m3 and m4 are the matches.
ForFound(text, m3, m4) ==
    IF m3 # {} THEN Positive(60 * NumberAt(text, SpacesEnd(text, Min(m3) + 3)))
    ELSE IF m4 # {} THEN Positive(NumberAt(text, SpacesEnd(text, Min(m4) + 3)))
    ELSE NoneNum

\* total_minutes of what the first two patterns found, or the retry.
TotalMinutes(text, hours, minutes) ==
    IF hours = 0 /\ minutes = 0
    THEN ForFound(text, {i \in 1..Len(text) : ForAt(text, i, HourUnits)},
                        {i \in 1..Len(text) : ForAt(text, i, MinuteUnits)})
    ELSE Positive(hours + minutes)

\* _parse_duration_minutes on the normalised text.
DurationOfText(text) ==
    TotalMinutes(text,
                 HoursFound(text, {i \in 1..Len(text) : HoursAt(text, i)}),
                 MinutesFound(text, {i \in 1..Len(text) : MinutesAt(text, i)}))

\* _parse_duration_minutes(utterance): total minutes, NoneNum for None.
_parse_duration_minutes(utterance) ==
    IF utterance = NoneText \/ utterance = <<>> THEN NoneNum
    ELSE DurationOfText(Replace(Replace(Strip(Lower(utterance)), <<"h", "o", "u", "r", "s", " ", "a", "n", "d">>, <<"h", "o", "u", "r", "s">>),
                                <<"h", "o", "u", "r", " ", "a", "n", "d">>, <<"h", "o", "u", "r">>))

\* parse_duration once mins is known.
DurationOut(mins, start_time) ==
    IF mins = NoneNum THEN ApiError(400)
    ELSE IF start_time = Malformed THEN ApiError(400)
    ELSE ApiOk([duration_minutes |-> mins,
                duration_hours |-> RoundHours(mins),
                end_time |-> IF start_time = NoneNum THEN NoneNum
                             ELSE start_time + MinutesDelta(mins)])

\* app/reservations.py parse_duration(payload): start_time is an instant or NoneNum.
parse_duration(utterance, start_time) ==
    DurationOut(_parse_duration_minutes(utterance), start_time)

\* (is|:)\s* at t[r..]: the index after the match, 0 when there is none.
LinkEnd(t, r) ==
    IF StartsWithAt(t, r, <<"i", "s">>) THEN SpacesEnd(t, r + 2)
    ELSE IF StartsWithAt(t, r, <<":">>) THEN SpacesEnd(t, r + 1)
    ELSE 0

\* (email|mail|address|id) at t[q..]: the index after the match, 0 when there is none.
NounEnd(t, q) ==
    IF StartsWithAt(t, q, <<"e", "m", "a", "i", "l">>) THEN q + 5
    ELSE IF StartsWithAt(t, q, <<"m", "a", "i", "l">>) THEN q + 4
    ELSE IF StartsWithAt(t, q, <<"a", "d", "d", "r", "e", "s", "s">>) THEN q + 7
    ELSE IF StartsWithAt(t, q, <<"i", "d">>) THEN q + 2
    ELSE 0

\* \s*(is|:)\s* after a noun that ends before t[e] (e = 0: there was no noun).
LinkAfter(t, e) == IF e = 0 THEN 0 ELSE LinkEnd(t, SpacesEnd(t, e))

\* \s*(email|mail|address|id)\s*(is|:)\s* at t[p..]: the index after the
\* match, 0 when there is none.
PrefaceRestAt(t, p) == LinkAfter(t, NounEnd(t, SpacesEnd(t, p)))

\* (my|the|our) at t[i..]: the index after the match, 0 when there is none.
DetEnd(t, i) ==
    IF StartsWithAt(t, i, <<"m", "y">>) THEN i + 2
    ELSE IF StartsWithAt(t, i, <<"t", "h", "e">>) \/ StartsWithAt(t, i, <<"o", "u", "r">>) THEN i + 3
    ELSE 0

\* The rest of the preface after (my|the|our), which ends before t[d].
PrefaceAfterDet(t, d) == IF d = 0 THEN 0 ELSE PrefaceRestAt(t, d)

\* The first of two tries that matched.
Either(long, short) == IF long > 0 THEN long ELSE short

\* \b(my|the|our)?\s*(email|mail|address|id)\s*(is|:)\s* at t[i..]: the index
\* after the match, 0 when there is none.  The optional word is tried first.
PrefaceAt(t, i) ==
    IF ~Boundary(t, i) THEN 0
    ELSE Either(PrefaceAfterDet(t, DetEnd(t, i)), PrefaceRestAt(t, i))

\* re.sub(preface, "", t), scanning from index i.
RECURSIVE DropPrefaces(_, _)

\* The scan at t[i], where a preface ends before t[e] (e = 0: there is none).
DropFrom(t, i, e) ==
    IF e > 0 THEN DropPrefaces(t, e) ELSE <<t[i]>> \o DropPrefaces(t, i + 1)

DropPrefaces(t, i) == IF i > Len(t) THEN <<>> ELSE DropFrom(t, i, PrefaceAt(t, i))

\* \bdot\s+tld\b at t[i..], where the white space after "dot" ends before
\* t[p]: the index after the match, 0 when there is none.
DotThen(t, i, tld, p) ==
    IF Boundary(t, i) /\ StartsWithAt(t, i, <<"d", "o", "t">>) /\ p > i + 3
       /\ StartsWithAt(t, p, tld) /\ Boundary(t, p + Len(tld))
    THEN p + Len(tld) ELSE 0

DotWordAt(t, i, tld) == DotThen(t, i, tld, SpacesEnd(t, i + 3))

\* re.sub(r"\bdot\s+tld\b", ".tld", t), scanning from index i.
RECURSIVE JoinDotWord(_, _, _)

\* The scan at t[i], where "dot tld" ends before t[e] (e = 0: it is not there).
JoinFrom(t, i, tld, e) ==
    IF e > 0 THEN <<".">> \o tld \o JoinDotWord(t, e, tld)
    ELSE <<t[i]>> \o JoinDotWord(t, i + 1, tld)

JoinDotWord(t, i, tld) ==
    IF i > Len(t) THEN <<>> ELSE JoinFrom(t, i, tld, DotWordAt(t, i, tld))

\* "dot com", "dot org" and "dot net" become ".com", ".org" and ".net".
JoinDotWords(t) ==
    JoinDotWord(JoinDotWord(JoinDotWord(t, 1, <<"c", "o", "m">>), 1, <<"o", "r", "g">>), 1, <<"n", "e", "t">>)

\* token_map.get(t), or t itself.
MapToken(t) ==
    CASE t = <<"a", "t">> -> <<"@">>
      [] t \in {<<"d", "o", "t">>, <<"p", "e", "r", "i", "o", "d">>} -> <<".">>
      [] t \in {<<"u", "n", "d", "e", "r", "s", "c", "o", "r", "e">>, <<"u", "n", "d", "e", "r", "_", "s", "c", "o", "r", "e">>} -> <<"_">>
      [] t \in {<<"d", "a", "s", "h">>, <<"h", "y", "p", "h", "e", "n">>, <<"m", "i", "n", "u", "s">>} -> <<"-">>
      [] t = <<"p", "l", "u", "s">> -> <<"+">>
      [] t \in {<<"s", "p", "a", "c", "e">>, <<"s", "p", "a", "c", "e", "s">>} -> <<>>
      [] OTHER -> t

\* for raw in re.split(r"\s+", text): t = raw.strip().strip(",;.!?"); the mapped words.
MapTokens(raws) ==
    [n \in 1..Len(raws) |-> MapToken(StripChars(raws[n], {",", ";", ".", "!", "?"}))]

\* The candidate after the joins: one "@", and a valid address.
CheckCandidate(candidate) ==
    IF Count(candidate, "@") # 1 THEN NoneText
    ELSE IF _is_valid_email(candidate) THEN candidate ELSE NoneText

\* _normalize_email_from_speech on text = utterance.strip().lower(); the empty
\* words re.split leaves at the ends join to nothing.
NormalizeText(text) ==
    CheckCandidate(RStripChars(
        Collapse(Collapse(Join(MapTokens(SplitWords(Strip(
            JoinDotWords(DropPrefaces(text, 1)))))), "."), "@"), {"."}))

\* _normalize_email_from_speech(utterance): the address, NoneText for None.
_normalize_email_from_speech(utterance) ==
    IF utterance = NoneText \/ utterance = <<>> THEN NoneText
    ELSE NormalizeText(Lower(Strip(utterance)))

\* parse_email once the address is known.
EmailOut(email) ==
    IF ~Truthy(email) THEN ApiError(400) ELSE ApiOk([email |-> email, valid |-> TRUE])

\* app/reservations.py parse_email(payload)
parse_email(utterance) == EmailOut(_normalize_email_from_speech(utterance))

(***************************************************************************)
(* State.                                                                   *)
(***************************************************************************)
VARIABLES
    store,      \* the reservation table: the rows in primary-key order
    now,        \* datetime.utcnow()
    call,       \* the engine call handled last: operation, payload, instant, table before it
    resp,       \* what that call returned: status, detail, body
    threads,    \* the threadpool: what each worker thread holds between its SELECT and its commit
    sessions    \* cartesia_agent.sessions: call_id -> AgentContext

vars == <<store, now, call, resp, threads, sessions>>

NoCall == [op |-> "none"]

NoResp == [status |-> 0]

\* The threads of the pool that runs the synchronous handlers.
Workers == {1, 2}

\* A worker thread that is running no handler.
Idle == [pc |-> "idle"]

\* The call ids the voice platform uses.
CallIds == {"c1"}

\* call_id not in sessions
Absent == [state |-> "absent"]

\* sessions: Dict[str, AgentContext] = {}
NoSessions == [c \in CallIds |-> Absent]

(***************************************************************************)
(* The dialogue (app/cartesia_agent.py).                                    *)
(***************************************************************************)
\* AgentContext(): a new session.
AgentContext ==
    [state |-> "greeting",
     customer_name |-> NoneText,
     vehicle_reg |-> NoneText,
     vehicle_type |-> None,
     arrival_time |-> NoneNum,
     duration_hours |-> NoneNum,
     email |-> NoneText,
     quote |-> NoneDict,
     reservation |-> NoneDict]

\* get_session(call_id): the session map after the call.
get_session(sess, call_id) ==
    IF sess[call_id] = Absent THEN [sess EXCEPT ![call_id] = AgentContext] ELSE sess

\* call_parking_api raises: the request did not get through (down), or
\* response.raise_for_status() met a 4xx status.
Raises(r, down) == down \/ r.status # 200

\* The JSON body the dialogue posts to /api/quote and /api/reservations.
ApiPayload(context, customer_name, email) ==
    [customer_name |-> customer_name,
     email |-> email,
     vehicle_reg |-> context.vehicle_reg,
     vehicle_type |-> context.vehicle_type,
     start_time |-> context.arrival_time,
     end_time |-> NoneNum,
     duration_hours |-> context.duration_hours,
     duration_minutes |-> NoneNum]

\* The text the agent speaks: the template and the values put into it.
Msg(id, args) == [id |-> id, args |-> args]

\* CartesiaWebhookResponse(message=..., context=context.dict(), end_call=...)
CartesiaWebhookResponse(message, context, end_call) ==
    [status |-> 200, message |-> message, context |-> context, end_call |-> end_call]

\* An exception that leaves handle_conversation.
Raised == [status |-> 500]

\* What a turn leaves behind: the session object as mutated, the table, the reply.
Turn(context, st, response) == [context |-> context, store |-> st, response |-> response]

\* A turn that replies with the context as it now is.
Reply(context, st, id, args, end_call) ==
    Turn(context, st, CartesiaWebhookResponse(Msg(id, args), context, end_call))

\* any(word in user_lower for word in ["yes", "confirm", "correct", "proceed", "book"])
SaysAffirmative(user_lower) ==
    \E word \in {<<"y", "e", "s">>, <<"c", "o", "n", "f", "i", "r", "m">>, <<"c", "o", "r", "r", "e", "c", "t">>, <<"p", "r", "o", "c", "e", "e", "d">>, <<"b", "o", "o", "k">>} : Contains(user_lower, word)

\* any(word in user_lower for word in ["skip", "no email", "no thanks", "none"])
SaysSkip(user_lower) ==
    \E word \in {<<"s", "k", "i", "p">>, <<"n", "o", " ", "e", "m", "a", "i", "l">>, <<"n", "o", " ", "t", "h", "a", "n", "k", "s">>, <<"n", "o", "n", "e">>} : Contains(user_lower, word)

\* A mutant of Greeting: the turn goes past COLLECT_NAME.
GreetingSkipsName(st, context) ==
    Reply([context EXCEPT !.state = "collect_vehicle"], st, "welcome", <<>>, FALSE)

\* handle_conversation, GREETING
Greeting(st, context) ==
    Reply([context EXCEPT !.state = "collect_name"], st, "welcome", <<>>, FALSE)

\* A mutant of CollectName: the utterance is counted and stored as heard.
CollectNameUntrimmed(st, context, user_message) ==
    IF Truthy(user_message) /\ Len(user_message) > 2
    THEN Reply([context EXCEPT !.customer_name = user_message,
                               !.state = "collect_vehicle"],
               st, "thank_you", <<user_message>>, FALSE)
    ELSE Reply(context, st, "name_again", <<>>, FALSE)

\* handle_conversation, COLLECT_NAME
CollectName(st, context, user_message) ==
    IF Truthy(user_message) /\ Len(Strip(user_message)) > 2
    THEN Reply([context EXCEPT !.customer_name = Strip(user_message),
                               !.state = "collect_vehicle"],
               st, "thank_you", <<Strip(user_message)>>, FALSE)
    ELSE Reply(context, st, "name_again", <<>>, FALSE)

\* COLLECT_VEHICLE once extract_vehicle_info has returned.
VehicleFound(st, context, vehicle_reg, vehicle_type) ==
    IF Truthy(vehicle_reg)
    THEN Reply([context EXCEPT !.vehicle_reg = vehicle_reg,
                               !.vehicle_type = vehicle_type,
                               !.state = "collect_arrival"],
               st, "got_it", <<vehicle_type, vehicle_reg>>, FALSE)
    ELSE Reply(context, st, "vehicle_again", <<>>, FALSE)

\* A mutant of OrCar: a class that was not recognized stays None.
KeepClass(vehicle_type) == vehicle_type

\* context.vehicle_type = vehicle_type or "car"
OrCar(vehicle_type) == IF vehicle_type # None THEN vehicle_type ELSE "car"

\* handle_conversation, COLLECT_VEHICLE
CollectVehicle(st, context, user_message) ==
    IF user_message = NoneText THEN Turn(context, st, Raised)
    ELSE VehicleFound(st, context, VehicleRegOf(Upper(user_message)),
                      OrCar(VehicleTypeOf(Lower(user_message))))

\* A mutant of ArrivalParsed: a failed extraction moves on without an arrival.
ArrivalParsedBlind(st, context, result, down) ==
    IF Raises(result, down)
    THEN Reply([context EXCEPT !.state = "collect_duration"], st, "arrival_again", <<>>, FALSE)
    ELSE Reply([context EXCEPT !.arrival_time = result.body.start_time,
                               !.state = "collect_duration"],
               st, "arriving", <<result.body.start_time>>, FALSE)

\* COLLECT_ARRIVAL once /api/parse-arrival has answered.
ArrivalParsed(st, context, result, down) ==
    IF Raises(result, down)
    THEN Reply(context, st, "arrival_again", <<>>, FALSE)
    ELSE Reply([context EXCEPT !.arrival_time = result.body.start_time,
                               !.state = "collect_duration"],
               st, "arriving", <<result.body.start_time>>, FALSE)

\* handle_conversation, COLLECT_ARRIVAL
CollectArrival(st, t, context, user_message, down) ==
    ArrivalParsed(st, context,
                  IF user_message = NoneText THEN ApiError(422)
                  ELSE parse_arrival(t, user_message),
                  down = 1)

\* A mutant of Quoted: the turn moves on without the quote.
QuotedUnchecked(st, context, q, down) ==
    IF Raises(q, down)
    THEN Reply([context EXCEPT !.state = "collect_email"], st, "duration_again", <<>>, FALSE)
    ELSE Reply([context EXCEPT !.quote = q.body, !.state = "collect_email"],
               st, "price",
               <<context.duration_hours, q.body.price_cents,
                 q.body.suggested_label, q.body.lot_name>>,
               FALSE)

\* COLLECT_DURATION once /api/quote has answered: context already holds the
\* duration.
Quoted(st, context, q, down) ==
    IF Raises(q, down)
    THEN Reply(context, st, "duration_again", <<>>, FALSE)
    ELSE Reply([context EXCEPT !.quote = q.body, !.state = "collect_email"],
               st, "price",
               <<context.duration_hours, q.body.price_cents,
                 q.body.suggested_label, q.body.lot_name>>,
               FALSE)

\* COLLECT_DURATION after context.duration_hours has been assigned.
GetQuote(st, t, context, down) ==
    Quoted(st, context, quote(st, t, ApiPayload(context, NoneText, NoneText)), down)

\* COLLECT_DURATION once /api/parse-duration has answered.
DurationParsed(st, t, context, result, down) ==
    IF Raises(result, down = 1)
    THEN Reply(context, st, "duration_again", <<>>, FALSE)
    ELSE GetQuote(st, t, [context EXCEPT !.duration_hours = result.body.duration_hours],
                  down = 2)

\* handle_conversation, COLLECT_DURATION
CollectDuration(st, t, context, user_message, down) ==
    DurationParsed(st, t, context,
                   IF user_message = NoneText THEN ApiError(422)
                   ELSE parse_duration(user_message, context.arrival_time),
                   down)

\* COLLECT_EMAIL after context.email and context.state have been assigned.
AskConfirm(st, context) ==
    IF context.quote = NoneDict
    THEN Reply(context, st, "quote_error", <<>>, TRUE)
    ELSE Reply(context, st, "confirm",
               <<context.customer_name, context.vehicle_type, context.vehicle_reg,
                 context.arrival_time, context.duration_hours,
                 context.quote.price_cents, context.email>>,
               FALSE)

\* A mutant of EmailParsed: a failed extraction moves on without an email.
EmailParsedAdvancing(st, context, result, down) ==
    IF Raises(result, down)
    THEN AskConfirm(st, [context EXCEPT !.state = "confirm_reservation"])
    ELSE AskConfirm(st, [context EXCEPT !.email = result.body.email,
                                        !.state = "confirm_reservation"])

\* COLLECT_EMAIL once /api/parse-email has answered.
EmailParsed(st, context, result, down) ==
    IF Raises(result, down)
    THEN Reply(context, st, "email_again", <<>>, FALSE)
    ELSE AskConfirm(st, [context EXCEPT !.email = result.body.email,
                                        !.state = "confirm_reservation"])

\* handle_conversation, COLLECT_EMAIL
CollectEmail(st, context, user_message, down) ==
    IF user_message = NoneText THEN Turn(context, st, Raised)
    ELSE IF SaysSkip(Lower(user_message))
    THEN AskConfirm(st, [context EXCEPT !.email = NoneText,
                                        !.state = "confirm_reservation"])
    ELSE EmailParsed(st, context, parse_email(user_message), down = 1)

\* A mutant of Reserved: a booking leaves the session in CONFIRM_RESERVATION.
ReservedStaying(st, context, r, down) ==
    IF Raises(r, down)
    THEN Reply(context, st, "reserve_error", <<>>, TRUE)
    ELSE Reply([context EXCEPT !.reservation = r.body],
               r.store, "confirmed",
               <<r.body.confirmation_code, r.body.spot_label, r.body.lot_name,
                 context.email>>,
               TRUE)

\* A mutant of Reserved: the session takes the reservation, the table does not.
ReservedUncommitted(st, context, r, down) ==
    IF Raises(r, down)
    THEN Reply(context, st, "reserve_error", <<>>, TRUE)
    ELSE Reply([context EXCEPT !.reservation = r.body, !.state = "completed"],
               st, "confirmed",
               <<r.body.confirmation_code, r.body.spot_label, r.body.lot_name,
                 context.email>>,
               TRUE)

\* CONFIRM_RESERVATION once /api/reservations has answered.
Reserved(st, context, r, down) ==
    IF Raises(r, down)
    THEN Reply(context, st, "reserve_error", <<>>, TRUE)
    ELSE Reply([context EXCEPT !.reservation = r.body, !.state = "completed"],
               r.store, "confirmed",
               <<r.body.confirmation_code, r.body.spot_label, r.body.lot_name,
                 context.email>>,
               TRUE)

\* CONFIRM_RESERVATION, affirmative: POST /api/reservations.
Reserve(st, t, context, down) ==
    Reserved(st, context,
             create_reservation(st, t,
                 ApiPayload(context, context.customer_name, context.email)),
             down)

\* A mutant of the CONFIRM_RESERVATION branch: a refusal books as well.
ConfirmAlways(st, t, context, user_message, down) ==
    IF user_message = NoneText THEN Turn(context, st, Raised)
    ELSE Reserve(st, t, context, down = 1)

\* handle_conversation, CONFIRM_RESERVATION
ConfirmReservation(st, t, context, user_message, down) ==
    IF user_message = NoneText THEN Turn(context, st, Raised)
    ELSE IF SaysAffirmative(Lower(user_message))
    THEN Reserve(st, t, context, down = 1)
    ELSE Reply([context EXCEPT !.state = "completed"], st, "cancelled", <<>>, TRUE)

\* handle_conversation(call_id, user_message, context) at instant t on the
\* table st.  `down` numbers the call_parking_api request of the turn that
\* does not get through (0: every request is answered).  context is the
\* object the session map holds, so what the turn assigns to it is in the
\* map whether or not save_session is reached.
handle_conversation(st, t, context, user_message, down) ==
    CASE context.state = "greeting" -> Greeting(st, context)
      [] context.state = "collect_name" -> CollectName(st, context, user_message)
      [] context.state = "collect_vehicle" -> CollectVehicle(st, context, user_message)
      [] context.state = "collect_arrival" ->
            CollectArrival(st, t, context, user_message, down)
      [] context.state = "collect_duration" ->
            CollectDuration(st, t, context, user_message, down)
      [] context.state = "collect_email" -> CollectEmail(st, context, user_message, down)
      [] context.state = "confirm_reservation" ->
            ConfirmReservation(st, t, context, user_message, down)
      [] OTHER -> Reply(context, st, "repeat", <<>>, FALSE)

\* The except branch of cartesia_webhook.
WebhookError ==
    [status |-> 200, message |-> Msg("error", <<>>), context |-> NoneDict, end_call |-> TRUE]

\* What a webhook leaves behind: the session map, the table, the reply.
Outcome(sess, st, response) == [sessions |-> sess, store |-> st, response |-> response]

\* A mutant of AfterTurn: a turn that raised drops the session of the call.
AfterTurnDropping(sess, st, call_id, r) ==
    IF r.response = Raised
    THEN Outcome([sess EXCEPT ![call_id] = Absent], st, WebhookError)
    ELSE Outcome([sess EXCEPT ![call_id] = r.context], r.store, r.response)

\* cartesia_webhook after the conversation turn r of call_id.
AfterTurn(sess, st, call_id, r) ==
    IF r.response = Raised THEN Outcome(sess, st, WebhookError)
    ELSE Outcome([sess EXCEPT ![call_id] = r.context], r.store, r.response)

\* A mutant of Dispatch: ending a call drops the last row of the table.
DispatchDropping(sess, st, t, call_id, event_type, user_message, down) ==
    IF event_type = "call_started"
    THEN Outcome(sess, st,
                 CartesiaWebhookResponse(Msg("welcome", <<>>), sess[call_id], FALSE))
    ELSE IF event_type = "call_ended"
    THEN Outcome([sess EXCEPT ![call_id] = Absent],
                 SubSeq(st, 1, Len(st) - 1), [status |-> 200, ok |-> TRUE])
    ELSE AfterTurn(sess, st, call_id,
                   handle_conversation(st, t, sess[call_id], user_message, down))

\* A mutant of Dispatch: ending a call keeps its session.
DispatchKeeping(sess, st, t, call_id, event_type, user_message, down) ==
    IF event_type = "call_started"
    THEN Outcome(sess, st,
                 CartesiaWebhookResponse(Msg("welcome", <<>>), sess[call_id], FALSE))
    ELSE IF event_type = "call_ended"
    THEN Outcome(sess, st, [status |-> 200, ok |-> TRUE])
    ELSE AfterTurn(sess, st, call_id,
                   handle_conversation(st, t, sess[call_id], user_message, down))

\* cartesia_webhook after get_session: sess holds a session for call_id.
Dispatch(sess, st, t, call_id, event_type, user_message, down) ==
    IF event_type = "call_started"
    THEN Outcome(sess, st,
                 CartesiaWebhookResponse(Msg("welcome", <<>>), sess[call_id], FALSE))
    ELSE IF event_type = "call_ended"
    THEN Outcome([sess EXCEPT ![call_id] = Absent], st, [status |-> 200, ok |-> TRUE])
    ELSE AfterTurn(sess, st, call_id,
                   handle_conversation(st, t, sess[call_id], user_message, down))

\* cartesia_webhook(request) at instant t: the payload carries call_id ("" when
\* it is missing), event_type and user_message.
cartesia_webhook(sess, st, t, payload, down) ==
    IF payload.call_id = "" THEN Outcome(sess, st, WebhookError)
    ELSE Dispatch(get_session(sess, payload.call_id), st, t, payload.call_id,
                  payload.event_type, payload.user_message, down)

\* The response a caller sees of an outcome.
Response(r) ==
    [status |-> r.status, detail |-> r.detail, consulted |-> r.consulted, body |-> r.body]

(***************************************************************************)
(* Payloads the model sends.                                                *)
(***************************************************************************)
Ann == <<"A", "n", "n">>

Plate == <<"K", "A", "0", "1", "A", "B", "1", "2", "3", "4">>

GoodEmail == <<"a", "@", "b", ".", "c", "o">>

BadEmail == <<"a", "@", "b">>

Hour == 60 * 60

\* The instants the clock shows.
Clock == {0, 30 * 60}

TimeInput(start_time, end_time, duration_hours, duration_minutes) ==
    [start_time |-> start_time, end_time |-> end_time,
     duration_hours |-> duration_hours, duration_minutes |-> duration_minutes]

Payload(customer_name, email, vehicle_reg, vehicle_type, ti) ==
    [customer_name |-> customer_name, email |-> email, vehicle_reg |-> vehicle_reg,
     vehicle_type |-> vehicle_type, start_time |-> ti.start_time,
     end_time |-> ti.end_time, duration_hours |-> ti.duration_hours,
     duration_minutes |-> ti.duration_minutes]

\* Well-formed payloads: [0, 2h) by hours, [1h, 3h) for a truck, [2h, 3h) by an
\* explicit end, one hour from now with an email, [0, 2h) by minutes, and an
\* explicit end given together with both durations.
GoodPayloads ==
    {Payload(Ann, NoneText, Plate, None, TimeInput(0, NoneNum, 200, NoneNum)),
     Payload(Ann, NoneText, Plate, "TRUCK", TimeInput(Hour, NoneNum, 200, NoneNum)),
     Payload(Ann, NoneText, Plate, None, TimeInput(2 * Hour, 3 * Hour, NoneNum, NoneNum)),
     Payload(Ann, GoodEmail, Plate, "car", TimeInput(NoneNum, NoneNum, 100, NoneNum)),
     Payload(Ann, NoneText, Plate, None, TimeInput(0, NoneNum, NoneNum, 120)),
     Payload(Ann, NoneText, Plate, None, TimeInput(0, 2 * Hour, 300, 30))}

\* One payload for each validation failure: an empty range, no end, no name,
\* no vehicle, an unknown vehicle type, a malformed email.
BadPayloads ==
    {Payload(Ann, NoneText, Plate, None, TimeInput(2 * Hour, 2 * Hour, NoneNum, NoneNum)),
     Payload(Ann, NoneText, Plate, None, TimeInput(0, NoneNum, NoneNum, NoneNum)),
     Payload(<<>>, NoneText, Plate, None, TimeInput(0, NoneNum, 200, NoneNum)),
     Payload(Ann, NoneText, <<>>, None, TimeInput(0, NoneNum, 200, NoneNum)),
     Payload(Ann, NoneText, Plate, "bus", TimeInput(0, NoneNum, 200, NoneNum)),
     Payload(Ann, BadEmail, Plate, None, TimeInput(0, NoneNum, 200, NoneNum))}

Payloads == GoodPayloads \cup BadPayloads

\* quote takes its times as strings, which may fail to parse.
QuotePayloads ==
    Payloads
    \cup {Payload(Ann, NoneText, Plate, None, TimeInput(Malformed, NoneNum, 200, NoneNum)),
          Payload(Ann, NoneText, Plate, None, TimeInput(0, Malformed, NoneNum, NoneNum))}

(***************************************************************************)
(* The engine, one request at a time.                                       *)
(***************************************************************************)
Init ==
    /\ store = <<>>
    /\ now = 0
    /\ call = NoCall
    /\ resp = NoResp
    /\ threads = [w \in Workers |-> Idle]
    /\ sessions = NoSessions

\* Time passes between requests.
Tick ==
    /\ now' \in {t \in Clock : t > now}
    /\ UNCHANGED <<store, call, resp, threads, sessions>>

\* One engine call: the handler runs from the first check to its return.
Handle(op, data, r) ==
    /\ Len(r.store) <= MaxRes
    /\ store' = r.store
    /\ call' = [op |-> op, data |-> data, at |-> now, pre |-> store]
    /\ resp' = Response(r)
    /\ UNCHANGED <<now, threads, sessions>>

\* POST /api/quote
ApiQuote ==
    \E data \in QuotePayloads : Handle("quote", data, quote(store, now, data))

\* POST /api/reservations
ApiCreateReservation ==
    \E data \in Payloads :
        Handle("create_reservation", data, create_reservation(store, now, data))

\* POST /reserve (parking_app.py)
ApiReserve ==
    \E data \in Payloads : Handle("reserve", data, reserve(store, now, data))

Next ==
    \/ Tick
    \/ ApiQuote
    \/ ApiCreateReservation
    \/ ApiReserve

Spec == Init /\ [][Next]_vars

(***************************************************************************)
(* The engine under the threadpool: FastAPI runs the synchronous handlers   *)
(* create_reservation and reserve on worker threads.  Inside                *)
(* `with Session(engine)` a handler first reads the table (_assign_spot),   *)
(* then builds its row, then session.add / session.commit writes it; no     *)
(* lock and no table constraint joins the read to the write.                *)
(***************************************************************************)
\* What the concurrent callers send: three overlapping stays and a bad request.
ConcPayloads ==
    {Payload(Ann, NoneText, Plate, None, TimeInput(0, NoneNum, 200, NoneNum)),
     Payload(Ann, NoneText, Plate, "TRUCK", TimeInput(Hour, NoneNum, 200, NoneNum)),
     Payload(Ann, NoneText, Plate, None, TimeInput(2 * Hour, 3 * Hour, NoneNum, NoneNum)),
     Payload(Ann, NoneText, Plate, "bus", TimeInput(0, NoneNum, 200, NoneNum))}

\* The handler `op` run to its end on the table st.
RunHandler(op, st, t, data) ==
    IF op = "reserve" THEN reserve(st, t, data) ELSE create_reservation(st, t, data)

InitConc == Init

\* Worker w takes a request, validates it, and _assign_spot finds a spot in
\* the table as it is now: the row is built, not yet written.
Select(w) ==
    /\ threads[w] = Idle
    /\ \E op \in {"create_reservation", "reserve"}, data \in ConcPayloads :
          LET r == RunHandler(op, store, now, data)
          IN  /\ r.status = 200
              /\ threads' = [threads EXCEPT ![w] =
                    [pc |-> "commit", op |-> op, data |-> data,
                     res |-> r.store[Len(r.store)]]]
    /\ UNCHANGED <<store, now, call, resp, sessions>>

\* Worker w takes a request that ends in an HTTPException: 400 before the
\* table is opened, 409 after _assign_spot found no spot.
Reject(w) ==
    /\ threads[w] = Idle
    /\ \E op \in {"create_reservation", "reserve"}, data \in ConcPayloads :
          LET r == RunHandler(op, store, now, data)
          IN  /\ r.status # 200
              /\ call' = [op |-> op, data |-> data, at |-> now, pre |-> store]
              /\ resp' = Response(r)
    /\ UNCHANGED <<store, now, threads, sessions>>

\* session.add(res); session.commit(); session.refresh(res); return.
Commit(w) ==
    /\ threads[w].pc = "commit"
    /\ Len(store) < MaxRes
    /\ store' = Append(store, threads[w].res)
    /\ call' = [op |-> threads[w].op, data |-> threads[w].data, at |-> now, pre |-> store]
    /\ resp' = [status |-> 200, detail |-> "", consulted |-> TRUE,
                body |-> ReservationOut(Len(store) + 1, threads[w].res)]
    /\ threads' = [threads EXCEPT ![w] = Idle]
    /\ UNCHANGED <<now, sessions>>

NextConc ==
    \/ \E w \in Workers : Select(w)
    \/ \E w \in Workers : Reject(w)
    \/ \E w \in Workers : Commit(w)

SpecConc == InitConc /\ [][NextConc]_vars

(***************************************************************************)
(* The dialogue, one webhook at a time.                                     *)
(***************************************************************************)
\* What a caller answers to the prompt of each state: words the extractor of
\* the state takes, and words it does not.
Heard(state) ==
    CASE state = "collect_name" -> {Ann, <<" ", "A", "n", "n", " ">>, <<"A", "l", " ">>}
      [] state = "collect_vehicle" -> {<<"K", "A", "0", "1", "A", "B", "1", "2", "3", "4">>, <<"K", "A", "0", "1", "A", "B", "1", "2", "3", "4", ",", " ", "t", "r", "u", "c", "k">>, <<"K", "A", " ", "0", "1", " ", "A", "B", " ", "1", "2", "3", "4">>}
      [] state = "collect_arrival" -> {<<"t", "o", "d", "a", "y", " ", "a", "t", " ", "1", " ", "A", "M">>, <<"s", "o", "o", "n">>}
      [] state = "collect_duration" -> {<<"2", " ", "h", "o", "u", "r", "s">>, <<"a", " ", "w", "h", "i", "l", "e">>}
      [] state = "collect_email" -> {<<"s", "k", "i", "p">>, <<"a", " ", "a", "t", " ", "b", " ", "d", "o", "t", " ", "c", "o">>, <<"a", " ", "a", "t", " ", "b", " ", "d", "o", "t", " ", "c", "o", "m">>}
      [] state = "confirm_reservation" ->
            {<<"y", "e", "s">>, <<"n", "o">>,
             <<"n", "o", ",", " ", "t", "h", "a", "t", " ", "i", "s", " ", "n", "o", "t", " ", "c", "o", "r", "r", "e", "c", "t">>,
             <<"I", " ", "d", "o", " ", "n", "o", "t", " ", "w", "a", "n", "t", " ", "t", "o", " ", "b", "o", "o", "k">>}
      [] OTHER -> {<<"h", "e", "l", "l", "o">>}

\* A webhook without words: user_message missing ("") or null.
Silence == {<<>>, NoneText}

\* The JSON payload of a webhook.
WebhookPayload(call_id, event_type, user_message) ==
    [call_id |-> call_id, event_type |-> event_type, user_message |-> user_message]

\* The call_parking_api requests a turn makes in each state.
Requests(state) ==
    CASE state \in {"collect_arrival", "collect_email", "confirm_reservation"} -> 1
      [] state = "collect_duration" -> 2
      [] OTHER -> 0

\* The service starts at some instant of the clock; a dialogue is short, and
\* the clock reads the same through it.
InitDialogue ==
    /\ store = <<>>
    /\ now \in Clock
    /\ call = NoCall
    /\ resp = NoResp
    /\ threads = [w \in Workers |-> Idle]
    /\ sessions = NoSessions

\* A webhook handled: r is what cartesia_webhook leaves behind.
Delivered(payload, down, r) ==
    /\ Len(r.store) <= MaxRes
    /\ sessions' = r.sessions
    /\ store' = r.store
    /\ call' = [op |-> "cartesia_webhook", data |-> payload, at |-> now,
                pre |-> store, down |-> down,
                before |-> IF payload.call_id = "" THEN Absent
                           ELSE sessions[payload.call_id]]
    /\ resp' = r.response
    /\ UNCHANGED <<now, threads>>

\* One webhook: cartesia_webhook runs from the first line to its return.
Deliver(payload, down) ==
    Delivered(payload, down, cartesia_webhook(sessions, store, now, payload, down))

\* The call_started and call_ended webhooks of the calls.
Lifecycle(event_type) ==
    {WebhookPayload(call_id, event_type, <<>>) : call_id \in CallIds}

CallStartedPayloads == Lifecycle("call_started")

CallEndedPayloads == Lifecycle("call_ended")

\* event_type == "call_started"
CallStarted == \E payload \in CallStartedPayloads : Deliver(payload, 0)

\* event_type == "call_ended"
CallEnded == \E payload \in CallEndedPayloads : Deliver(payload, 0)

\* A regular conversation turn; `down` is the request of the turn that does
\* not get through (0: every request is answered).
Message ==
    \E call_id \in CallIds :
        LET state == get_session(sessions, call_id)[call_id].state
        IN  \E user_message \in Heard(state) \cup Silence, down \in 0..Requests(state) :
                Deliver(WebhookPayload(call_id, "message", user_message), down)

\* A payload without call_id.
NoCallIdPayload == WebhookPayload("", "message", <<>>)

NoCallId == Deliver(NoCallIdPayload, 0)

\* The process starts again: the session map is the empty dict of the module,
\* the table is the database file and stays.
Restart ==
    /\ sessions # NoSessions
    /\ sessions' = NoSessions
    /\ call' = [op |-> "restart", pre |-> store]
    /\ resp' = NoResp
    /\ UNCHANGED <<store, now, threads>>

NextDialogue ==
    \/ CallStarted
    \/ CallEnded
    \/ Message
    \/ NoCallId
    \/ Restart

SpecDialogue == InitDialogue /\ [][NextDialogue]_vars

(***************************************************************************)
(* The dialogue of a caller who is understood: every utterance is one the   *)
(* handler of its state extracts, every request is answered, the lot is     *)
(* empty when the call begins, and the caller goes on answering.            *)
(***************************************************************************)
\* The whole minutes a caller asks for.
MinSaidMinutes == 45

MaxSaidMinutes == 54

\* 'm minutes' for every m of the range.
SaidMinutes ==
    {IntText(m) \o <<" ", "m", "i", "n", "u", "t", "e", "s">> : m \in MinSaidMinutes..MaxSaidMinutes}

\* Utterances the handler of each state extracts.
Extractable(state) ==
    CASE state = "collect_name" -> {Ann, <<" ", "A", "n", "n", " ">>}
      [] state = "collect_vehicle" -> {<<"K", "A", "0", "1", "A", "B", "1", "2", "3", "4", ",", " ", "t", "r", "u", "c", "k">>, <<"K", "A", "0", "1", "A", "B", "1", "2", "3", "4">>}
      [] state = "collect_arrival" -> {<<"t", "o", "d", "a", "y", " ", "a", "t", " ", "1", " ", "A", "M">>, <<"t", "o", "m", "o", "r", "r", "o", "w", " ", "a", "t", " ", "1", " ", "A", "M">>}
      [] state = "collect_duration" -> {<<"2", " ", "h", "o", "u", "r", "s">>} \cup SaidMinutes
      [] state = "collect_email" -> {<<"s", "k", "i", "p">>, <<"a", " ", "a", "t", " ", "b", " ", "d", "o", "t", " ", "c", "o">>}
      [] state = "confirm_reservation" -> {<<"y", "e", "s">>, <<"n", "o">>}
      [] OTHER -> {<<"h", "e", "l", "l", "o">>}

\* The turn of a call in `state`: an utterance the state extracts, every
\* request answered.  A caller whose call is over says no more.
Understood(call_id, state) ==
    /\ state # "completed"
    /\ \E user_message \in Extractable(state) :
          Deliver(WebhookPayload(call_id, "message", user_message), 0)

HappyTurn ==
    \E call_id \in CallIds : Understood(call_id, get_session(sessions, call_id)[call_id].state)

NextHappy == HappyTurn

\* Every call has come to COMPLETED.
CallsOver == \A c \in CallIds : sessions[c] # Absent /\ sessions[c].state = "completed"

\* The caller answers every prompt: a turn that can be taken is taken.  This
\* is weak fairness of HappyTurn, written out: a turn can be taken exactly
\* while the call is not over, so either the calls are over again and again
\* or turns are taken again and again.
Answering == []<>CallsOver \/ []<><<HappyTurn>>_vars

SpecHappy == InitDialogue /\ [][NextHappy]_vars /\ Answering

(***************************************************************************)
(* The dialogue of a caller who is understood, while other callers book     *)
(* through the API.                                                         *)
(***************************************************************************)
\* What another caller books: a car for [1h, 3h) of the first day.
OtherPayloads ==
    {Payload(<<"B", "o", "b">>, NoneText, <<"A", "B", "C", "1", "2", "3", "4">>, "car", TimeInput(Hour, NoneNum, 200, NoneNum))}

\* POST /api/reservations of another call.
OtherCallBooks ==
    \E data \in OtherPayloads :
        Handle("create_reservation", data, create_reservation(store, now, data))

NextShared ==
    \/ HappyTurn
    \/ OtherCallBooks

SpecShared == InitDialogue /\ [][NextShared]_vars

(***************************************************************************)
(* Webhooks of one call handled at the same time.  cartesia_webhook and     *)
(* handle_conversation are coroutines of one event loop: a webhook runs     *)
(* alone from an await to the next, and another webhook may run while it    *)
(* waits for call_parking_api.  Every webhook of the call works on the one  *)
(* AgentContext object the session map holds, so what a coroutine assigns   *)
(* to context is seen by the other at once.  The API serves a request when  *)
(* it is sent, and every request is answered.                               *)
(***************************************************************************)
TurnsCall == "c1"

\* What the callers say in each state.
HeardTurns(state) ==
    CASE state = "collect_name" -> {Ann}
      [] state = "collect_vehicle" -> {<<"K", "A", "0", "1", "A", "B", "1", "2", "3", "4", ",", " ", "t", "r", "u", "c", "k">>}
      [] state = "collect_arrival" -> {<<"t", "o", "d", "a", "y", " ", "a", "t", " ", "1", " ", "A", "M">>}
      [] state = "collect_duration" -> {<<"2", " ", "h", "o", "u", "r", "s">>, <<"3", " ", "h", "o", "u", "r", "s">>}
      [] state = "collect_email" -> {<<"s", "k", "i", "p">>, <<"a", " ", "a", "t", " ", "b", " ", "d", "o", "t", " ", "c", "o">>}
      [] state = "confirm_reservation" -> {<<"y", "e", "s">>, <<"n", "o">>}
      [] OTHER -> {<<"h", "e", "l", "l", "o">>}

\* Where a coroutine stands after a step: the request it waits for (thread),
\* the session object and the table.
Step(thread, context, st) == [thread |-> thread, context |-> context, store |-> st]

\* The coroutine awaits the answer `result` of a call_parking_api request.
Awaiting(pc, result) == [pc |-> pc, result |-> result]

\* The turn returned.
Finished(turn, st) == Step(Idle, turn.context, st)

\* POST /api/reservations is served: the table is the one it leaves.
SentReserve(context, r) == Step(Awaiting("reserve", r), context, r.store)

\* handle_conversation from its first line to its first await, or to its
\* return when the branch awaits nothing.
FirstStep(st, t, context, user_message) ==
    CASE context.state = "collect_arrival" ->
            Step(Awaiting("arrival", parse_arrival(t, user_message)), context, st)
      [] context.state = "collect_duration" ->
            Step(Awaiting("duration", parse_duration(user_message, context.arrival_time)),
                 context, st)
      [] context.state = "collect_email" /\ ~SaysSkip(Lower(user_message)) ->
            Step(Awaiting("email", parse_email(user_message)), context, st)
      [] context.state = "confirm_reservation" /\ SaysAffirmative(Lower(user_message)) ->
            SentReserve(context,
                        create_reservation(st, t,
                            ApiPayload(context, context.customer_name, context.email)))
      [] OTHER -> Finished(handle_conversation(st, t, context, user_message, 0), st)

\* COLLECT_DURATION after context.duration_hours has been assigned: POST /api/quote.
SentQuote(st, t, context) ==
    Step(Awaiting("quote", quote(st, t, ApiPayload(context, NoneText, NoneText))),
         context, st)

\* handle_conversation from the await the coroutine stood at to the next one,
\* or to its return; context is the session object as it is now.
NextStep(st, t, context, thread) ==
    CASE thread.pc = "arrival" ->
            Finished(ArrivalParsed(st, context, thread.result, FALSE), st)
      [] thread.pc = "duration" ->
            IF Raises(thread.result, FALSE)
            THEN Finished(Reply(context, st, "duration_again", <<>>, FALSE), st)
            ELSE SentQuote(st, t, [context EXCEPT
                                     !.duration_hours = thread.result.body.duration_hours])
      [] thread.pc = "quote" -> Finished(Quoted(st, context, thread.result, FALSE), st)
      [] thread.pc = "email" ->
            Finished(EmailParsed(st, context, thread.result, FALSE), st)
      [] OTHER -> Finished(Reserved(st, context, thread.result, FALSE), st)

\* The webhooks handled together since no webhook was in progress: the session
\* and the table they started from, and their utterances in order of arrival.
Together(user_message) ==
    IF \A w \in Workers : threads[w] = Idle
    THEN [op |-> "turns", before |-> sessions[TurnsCall], pre |-> store,
          at |-> now, heard |-> <<user_message>>]
    ELSE [call EXCEPT !.heard = Append(@, user_message)]

\* A coroutine has moved to `step`.
Moved(w, step) ==
    /\ Len(step.store) <= MaxRes
    /\ sessions' = [sessions EXCEPT ![TurnsCall] = step.context]
    /\ store' = step.store
    /\ threads' = [threads EXCEPT ![w] = step.thread]
    /\ UNCHANGED <<now, resp>>

\* A webhook arrives with user_message; sess is the session map after
\* get_session.  At most two webhooks are handled together.
Arrived(w, user_message, sess) ==
    /\ (\E v \in Workers : threads[v] # Idle) => Len(call.heard) = 1
    /\ call' = Together(user_message)
    /\ Moved(w, FirstStep(store, now, sess[TurnsCall], user_message))

\* cartesia_webhook starts for a conversation turn.
Begin(w) ==
    /\ threads[w] = Idle
    /\ \E user_message \in HeardTurns(get_session(sessions, TurnsCall)[TurnsCall].state) :
          Arrived(w, user_message, get_session(sessions, TurnsCall))

\* The answer a coroutine awaits is there, and the coroutine goes on.
Resume(w) ==
    /\ threads[w] # Idle
    /\ Moved(w, NextStep(store, now, sessions[TurnsCall], threads[w]))
    /\ UNCHANGED call

NextTurns ==
    \/ \E w \in Workers : Begin(w)
    \/ \E w \in Workers : Resume(w)

SpecTurns == InitDialogue /\ [][NextTurns]_vars

(***************************************************************************)
(* Confirmation codes: bookings of a vehicle whose registration is spelled  *)
(* in several ways, for starts in the same minute and in different ones.    *)
(***************************************************************************)
\* KA01AB1234 as a caller may spell it, and another vehicle.
CodePlates == {Plate, <<"k", "a", " ", "0", "1", " ", "a", "b", " ", "1", "2", "3", "4">>, <<"A", "B", "C", "-", "1", "2", "3", "4">>}

\* Two starts in the first minute, and no start: the booking starts now.
CodeStarts == {0, 7, NoneNum}

\* One hour from each start.
CodePayloads ==
    {Payload(Ann, NoneText, vehicle_reg, None, TimeInput(start_time, NoneNum, 100, NoneNum)) :
        vehicle_reg \in CodePlates, start_time \in CodeStarts}

\* POST /api/reservations
BookCreateReservation ==
    \E data \in CodePayloads :
        Handle("create_reservation", data, create_reservation(store, now, data))

\* POST /reserve (parking_app.py)
BookReserve ==
    \E data \in CodePayloads : Handle("reserve", data, reserve(store, now, data))

NextCode ==
    \/ Tick
    \/ BookCreateReservation
    \/ BookReserve

SpecCode == Init /\ [][NextCode]_vars

(***************************************************************************)
(* A call that ends while a turn of it waits for the API.  The coroutine of *)
(* the turn holds the AgentContext object it got from get_session; `del     *)
(* sessions[call_id]` takes the object out of the map and leaves it to the  *)
(* coroutine, and save_session(call_id, context) puts it back.              *)
(***************************************************************************)
\* A coroutine that waits: the request it awaits, the object it holds, and
\* whether the session map still holds that object.
Suspended(thread, context, attached) ==
    [pc |-> thread.pc, result |-> thread.result, context |-> context, attached |-> attached]

\* The coroutine after a step that began with the object in or out of the map.
Holder(step, attached) ==
    IF step.thread = Idle THEN Idle ELSE Suspended(step.thread, step.context, attached)

\* The AgentContext object coroutine w works on.
ObjectOf(w) == IF threads[w].attached THEN sessions[TurnsCall] ELSE threads[w].context

\* The step reached save_session(call_id, context): every branch calls it
\* after it has assigned the next state, and no except branch does.
Saved(step, context) == step.thread = Idle /\ step.context.state # context.state

\* A conversation turn starts and runs to its first await, or to its return.
Heard1(w, user_message, step) ==
    /\ Len(step.store) <= MaxRes
    /\ sessions' = [sessions EXCEPT ![TurnsCall] = step.context]
    /\ store' = step.store
    /\ threads' = [threads EXCEPT ![w] = Holder(step, TRUE)]
    /\ call' = [op |-> "turn", user_message |-> user_message, at |-> now, pre |-> store]
    /\ UNCHANGED <<now, resp>>

\* cartesia_webhook starts for a conversation turn; one turn at a time.
TurnBegins(w) ==
    /\ \A v \in Workers : threads[v] = Idle
    /\ \E user_message \in HeardTurns(get_session(sessions, TurnsCall)[TurnsCall].state) :
          Heard1(w, user_message,
                 FirstStep(store, now, get_session(sessions, TurnsCall)[TurnsCall],
                           user_message))

\* event_type == "call_ended": del sessions[call_id].
CallEnds ==
    /\ sessions[TurnsCall] # Absent
    /\ sessions' = [sessions EXCEPT ![TurnsCall] = Absent]
    /\ threads' = [w \in Workers |->
                     IF threads[w] = Idle THEN Idle
                     ELSE Suspended(threads[w], ObjectOf(w), FALSE)]
    /\ call' = [op |-> "call_ended", at |-> now, pre |-> store]
    /\ resp' = [status |-> 200, ok |-> TRUE]
    /\ UNCHANGED <<store, now>>

\* The coroutine w has gone on from its await to `step`; `attached` tells
\* whether the map holds its object after the step.
Woken(w, step, attached) ==
    /\ Len(step.store) <= MaxRes
    /\ sessions' = IF attached THEN [sessions EXCEPT ![TurnsCall] = step.context]
                   ELSE sessions
    /\ store' = step.store
    /\ threads' = [threads EXCEPT ![w] = Holder(step, attached)]
    /\ call' = [op |-> "resume", at |-> now, pre |-> store]
    /\ UNCHANGED <<now, resp>>

\* The answer coroutine w awaits is there, and the coroutine goes on.
TurnResumes(w) ==
    /\ threads[w] # Idle
    /\ Woken(w, NextStep(store, now, ObjectOf(w), threads[w]),
             threads[w].attached
               \/ Saved(NextStep(store, now, ObjectOf(w), threads[w]), ObjectOf(w)))

NextTeardown ==
    \/ \E w \in Workers : TurnBegins(w)
    \/ CallEnds
    \/ \E w \in Workers : TurnResumes(w)

SpecTeardown == InitDialogue /\ [][NextTeardown]_vars

(***************************************************************************)
(* The ticket email.  create_reservation hands _send_ticket_email to the    *)
(* background tasks of its response: the task runs after the response has   *)
(* been sent.  threads holds the tasks that wait to run.                    *)
(***************************************************************************)
\* The SMTP environment of a run: no SMTP_HOST, a server that takes the
\* message, a server that fails, and an SMTP_PORT that is not a number.
SmtpConfigs == {"no_host", "accepting", "failing", "bad_port"}

\* _send_ticket_email(res) under an SMTP environment: how the task ends.
_send_ticket_email(res, smtp) ==
    IF smtp = "bad_port" THEN "raised"
    ELSE IF smtp = "no_host" \/ ~Truthy(res.email) THEN "skipped"
    ELSE IF smtp = "failing" THEN "ignored"
    ELSE "sent"

\* A mutant of Background: the task is added whatever the answer is.
BackgroundUnchecked(r, data) ==
    IF Truthy(data.email)
    THEN [pc |-> "mail", res |-> IF r.store = <<>> THEN NoneDict ELSE r.store[Len(r.store)],
          answer |-> Response(r)]
    ELSE Idle

\* if data.email: background.add_task(_send_ticket_email, res), reached after
\* session.commit(): the task a handled request leaves behind.
Background(r, data) ==
    IF r.status = 200 /\ Truthy(data.email)
    THEN [pc |-> "mail", res |-> r.store[Len(r.store)], answer |-> Response(r)]
    ELSE Idle

\* Bookings with and without an email, for two ranges, and a malformed email.
MailPayloads ==
    {Payload(Ann, email, Plate, None, TimeInput(start_time, NoneNum, 200, NoneNum)) :
        email \in {GoodEmail, NoneText, BadEmail}, start_time \in {0, Hour}}

\* create_reservation has answered r.
Answered(w, data, r) ==
    /\ Len(r.store) <= MaxRes
    /\ store' = r.store
    /\ call' = [op |-> "create_reservation", data |-> data, at |-> now, pre |-> store]
    /\ resp' = Response(r)
    /\ threads' = [threads EXCEPT ![w] = Background(r, data)]
    /\ UNCHANGED <<now, sessions>>

\* POST /api/reservations, with its background task.
BookMail(w) ==
    /\ threads[w] = Idle
    /\ \E data \in MailPayloads : Answered(w, data, create_reservation(store, now, data))

\* The background task of a response runs.
Mail(w) ==
    /\ threads[w] # Idle
    /\ \E smtp \in SmtpConfigs :
          call' = [op |-> "mail", smtp |-> smtp, pre |-> store, before |-> resp,
                   res |-> threads[w].res, answer |-> threads[w].answer,
                   result |-> _send_ticket_email(threads[w].res, smtp)]
    /\ threads' = [threads EXCEPT ![w] = Idle]
    /\ UNCHANGED <<store, now, resp, sessions>>

NextMail ==
    \/ \E w \in Workers : BookMail(w)
    \/ \E w \in Workers : Mail(w)

SpecMail == Init /\ [][NextMail]_vars

(***************************************************************************)
(* The extractors of speech on their own: /api/parse-arrival and            *)
(* /api/parse-email answer utterances at instants of the day.               *)
(***************************************************************************)
\* Instants of 2026-01-01 the clock shows: on the hour, with minutes and
\* seconds, and close to midnight.
SpeechClock ==
    {0, 10 * Hour, 10 * Hour + 17 * 60 + 23, 14 * Hour + 59 * 60, 15 * Hour, 15 * Hour + 1,
     15 * Hour + 60, 23 * Hour + 58 * 60}

\* What callers say when asked for the arrival.
ArrivalUtterances ==
    {<<"t", "o", "d", "a", "y", " ", "a", "t", " ", "3", " ", "P", "M">>,
     <<"t", "o", "d", "a", "y", " ", "a", "t", " ", "3", " ", "A", "M">>,
     <<"t", "o", "d", "a", "y", " ", "a", "t", " ", "2", ":", "5", "5", " ", "p", "m">>,
     <<"t", "o", "d", "a", "y", " ", "a", "t", " ", "2", ":", "5", "4", " ", "p", "m">>,
     <<"t", "o", "d", "a", "y", " ", "a", "t", " ", "2", ":", "5", "6", " ", "p", "m">>,
     <<"t", "o", "m", "o", "r", "r", "o", "w", " ", "a", "t", " ", "3", " ", "A", "M">>,
     <<"3", " ", "p", "m">>,
     <<"t", "o", "d", "a", "y", " ", "a", "t", " ", "9", ":", "5", "5">>,
     <<"t", "o", "d", "a", "y", " ", "a", "t", " ", "0", ":", "2", "5">>,
     <<"s", "o", "o", "n">>,
     <<"t", "o", "d", "a", "y">>,
     <<>>}

\* What callers say when asked for the email.
EmailUtterances ==
    {<<"j", "o", "h", "n", " ", "d", "o", "t", " ", "d", "o", "e", " ", "a", "t", " ", "g", "m", "a", "i", "l", " ", "d", "o", "t", " ", "c", "o", "m">>,
     <<"j", "o", "h", "n", " ", "d", "o", "t", " ", "d", "o", "e", " ", "a", "t", " ", "g", "m", "a", "i", "l", ".", "c", "o", "m">>,
     <<"j", "o", "h", "n", " ", "d", "o", "t", " ", "d", "o", "e", " ", "a", "t", " ", "g", "m", "a", "i", "l", " ", "d", "o", "t", " ", "c", "o">>,
     <<"m", "y", " ", "e", "m", "a", "i", "l", " ", "i", "s", " ", "a", " ", "a", "t", " ", "b", " ", "d", "o", "t", " ", "o", "r", "g">>,
     <<"a", " ", "a", "t", " ", "b">>,
     <<"s", "k", "i", "p">>}

InitSpeech ==
    /\ store = <<>>
    /\ now \in SpeechClock
    /\ call = NoCall
    /\ resp = NoResp
    /\ threads = [w \in Workers |-> Idle]
    /\ sessions = NoSessions

\* An extractor has answered `result` to the utterance.
Extracted(op, utterance, result) ==
    /\ call' = [op |-> op, utterance |-> utterance, at |-> now]
    /\ resp' = result
    /\ UNCHANGED <<store, now, threads, sessions>>

\* POST /api/parse-arrival
ApiParseArrival == \E u \in ArrivalUtterances : Extracted("parse_arrival", u, parse_arrival(now, u))

\* POST /api/parse-email
ApiParseEmail == \E u \in EmailUtterances : Extracted("parse_email", u, parse_email(u))

NextSpeech == ApiParseArrival \/ ApiParseEmail

SpecSpeech == InitSpeech /\ [][NextSpeech]_vars

(***************************************************************************)
(* The allocator on its own: _assign_spot applied to a table that may hold   *)
(* rows of another lot, cancelled rows and rows without a spot.              *)
(***************************************************************************)
Row(lot_name, status, spot_number, start_time, end_time) ==
    [lot_name |-> lot_name, status |-> status, spot_number |-> spot_number,
     start_time |-> start_time, end_time |-> end_time]

AllocIntervals == {<<0, 2 * Hour>>, <<Hour, 3 * Hour>>, <<2 * Hour, 3 * Hour>>}

\* Confirmed rows of this lot on every spot, and rows the allocator must pass
\* over: another lot's, cancelled ones, one without a spot.
AllocRows ==
    {Row(LOT_NAME, "confirmed", sp, iv[1], iv[2]) :
        sp \in 1..LOT_CAPACITY, iv \in AllocIntervals}
    \cup {Row("RapidPark-B", "confirmed", sp, 0, 3 * Hour) : sp \in 1..LOT_CAPACITY}
    \cup {Row(LOT_NAME, "cancelled", sp, 0, 3 * Hour) : sp \in 1..LOT_CAPACITY}
    \cup {Row(LOT_NAME, "confirmed", NoneNum, 0, 3 * Hour)}

AllocTables == UNION {[1..n -> AllocRows] : n \in 0..MaxRes}

InitAlloc ==
    /\ store \in AllocTables
    /\ now = 0
    /\ call \in {[op |-> "_assign_spot", start |-> iv[1], end |-> iv[2]] :
                    iv \in AllocIntervals \cup {<<0, Hour>>}}
    /\ resp = NoResp
    /\ threads = [w \in Workers |-> Idle]
    /\ sessions = NoSessions

\* spot = _assign_spot(session, LOT_NAME, start, end)
AssignSpot ==
    /\ resp = NoResp
    /\ resp' = [status |-> 200, spot |-> _assign_spot(store, LOT_NAME, call.start, call.end)]
    /\ UNCHANGED <<store, now, call, threads, sessions>>

NextAlloc == AssignSpot

SpecAlloc == InitAlloc /\ [][NextAlloc]_vars

(***************************************************************************)
(* The pricing function on its own.                                         *)
(***************************************************************************)
PriceTypes == {None, "", "car", "motorcycle", "truck", "TRUCK", " car ", "bus"}

\* Stays of up to MaxPriceMinutes minutes, on and around every whole minute.
PriceSeconds ==
    {60 * m + d : m \in 0..MaxPriceMinutes, d \in {0, 1, 59}} \ {0}

InitPrice ==
    /\ store = <<>>
    /\ now = 0
    /\ call \in {[op |-> "_compute_price_cents", start |-> s0, end |-> s0 + secs,
                  vehicle_type |-> vt] :
                    s0 \in {0, 30}, secs \in PriceSeconds, vt \in PriceTypes}
    /\ resp = NoResp
    /\ threads = [w \in Workers |-> Idle]
    /\ sessions = NoSessions

\* price = _compute_price_cents(start, end, data.vehicle_type)
ComputePrice ==
    /\ resp = NoResp
    /\ resp' = [status |-> 200,
                price |-> _compute_price_cents(call.start, call.end, call.vehicle_type)]
    /\ UNCHANGED <<store, now, call, threads, sessions>>

NextPrice == ComputePrice

SpecPrice == InitPrice /\ [][NextPrice]_vars

(***************************************************************************)
(* Properties.                                                              *)
(***************************************************************************)
\* Two intervals share time: the half-open overlap of the data model.
SharesTime(s1, e1, s2, e2) == s1 < e2 /\ s2 < e1

\* A confirmed row of the lot on `spot` shares time with [start, end).
Blocked(st, spot, start, end) ==
    \E i \in DOMAIN st :
        /\ st[i].lot_name = LOT_NAME
        /\ st[i].status = "confirmed"
        /\ st[i].spot_number = spot
        /\ SharesTime(start, end, st[i].start_time, st[i].end_time)

\* C1: after any sequence of reserve operations run one at a time, no two
\* confirmed reservations of the same lot on the same spot overlap in time.
C1_NoDoubleBooking ==
    \A i, j \in DOMAIN store :
        (/\ i # j
         /\ store[i].status = "confirmed" /\ store[j].status = "confirmed"
         /\ store[i].lot_name = store[j].lot_name
         /\ store[i].spot_number = store[j].spot_number)
        => ~SharesTime(store[i].start_time, store[i].end_time,
                       store[j].start_time, store[j].end_time)

\* Two reservations share spot 1 back to back while a third, overlapping one
\* sits on spot 2.
C1_Witness ==
    /\ \E i, j, k \in DOMAIN store :
           /\ i # j
           /\ store[i].spot_number = 1 /\ store[j].spot_number = 1
           /\ store[i].end_time = store[j].start_time
           /\ store[k].spot_number = 2
           /\ SharesTime(store[i].start_time, store[i].end_time,
                         store[k].start_time, store[k].end_time)
    /\ Len(store) = 3
    /\ call.op = "create_reservation"
    /\ resp.status = 200
    /\ resp.body.id = 3
    /\ call.at = 0
    /\ now = 0
    /\ store[1].start_time = 0
    /\ store[2].spot_number = 2
    /\ store[1].vehicle_type = None
    /\ store[2].vehicle_type = None
    /\ store[3].vehicle_type = None

\* C2: the allocation check and the insert of a reserve call are one atomic
\* unit: under every interleaving of the worker threads, the row a call commits
\* takes a spot that no confirmed row of the lot, committed before it, holds
\* for an overlapping interval; so two calls with overlapping intervals never
\* both commit the same spot.
C2_AtomicReserve ==
    [][\A w \in Workers :
          (threads[w].pc = "commit" /\ threads'[w] = Idle /\ Len(store') = Len(store) + 1)
          => ~Blocked(store, threads[w].res.spot_number,
                      threads[w].res.start_time, threads[w].res.end_time)]_vars

\* The spots of the lot on which no confirmed row shares time with the call.
FreeSpots == {sp \in 1..LOT_CAPACITY : ~Blocked(store, sp, call.start, call.end)}

\* C3: the allocator returns the smallest spot in 1..capacity that no confirmed
\* row of the lot overlaps, and none exactly when there is no such spot;
\* cancelled rows and rows of other lots block nothing.
C3_AllocatorCorrect ==
    resp # NoResp =>
        IF FreeSpots = {}
        THEN resp.spot = NoneNum
        ELSE resp.spot \in FreeSpots /\ \A sp \in FreeSpots : resp.spot <= sp

\* Spot 1 is taken, spot 2 carries only a cancelled row over the same time,
\* and the allocator hands out spot 2.
C3_Witness ==
    /\ resp # NoResp
    /\ resp.spot = 2
    /\ Blocked(store, 1, call.start, call.end)
    /\ \E i \in DOMAIN store :
          /\ store[i].status = "cancelled"
          /\ store[i].spot_number = 2
          /\ SharesTime(call.start, call.end, store[i].start_time, store[i].end_time)
    /\ Len(store) = 2
    /\ call.start = 0
    /\ call.end = 2 * Hour
    /\ store[1].status = "confirmed"
    /\ store[1].end_time = 3 * Hour
    /\ store[2].end_time = 3 * Hour
    /\ store[2].start_time = 0

\* C4: _overlaps(a, b) is true iff start_a < end_b and start_b < end_a, so a
\* spot whose reservations all end by the start of the interval (or begin at
\* its end or later) is not blocked: the allocator returns it or a lower spot.
C4_HalfOpenOverlap ==
    /\ \A i \in DOMAIN store :
          _overlaps(call.start, call.end, store[i].start_time, store[i].end_time)
          <=> (call.start < store[i].end_time /\ store[i].start_time < call.end)
    /\ resp # NoResp =>
          \A sp \in 1..LOT_CAPACITY :
              (\A iv \in TakenBySpot(store, LOT_NAME, sp) :
                  iv[2] <= call.start \/ call.end <= iv[1])
              => (resp.spot # NoneNum /\ resp.spot <= sp)

\* The interval starts at the instant the only reservation of spot 1 ends, and
\* spot 1 is allocated.
C4_Witness ==
    /\ resp # NoResp
    /\ resp.spot = 1
    /\ \E i \in DOMAIN store :
          /\ store[i].lot_name = LOT_NAME
          /\ store[i].status = "confirmed"
          /\ store[i].spot_number = 1
          /\ store[i].end_time = call.start
    /\ Len(store) = 1

\* C5: quote never adds, removes or changes a reservation, and with an explicit
\* start the same quote asked again, at any later instant, against the
\* unchanged table returns the same answer.
C5_QuoteIsPure ==
    call.op = "quote" =>
        /\ store = call.pre
        /\ call.data.start_time # NoneNum =>
              \A t \in Clock : Response(quote(store, t, call.data)) = resp

\* A quote with an explicit start answered from a table that holds a row.
C5_Witness ==
    /\ call.op = "quote"
    /\ resp.status = 200
    /\ call.data.start_time # NoneNum
    /\ store # <<>>
    /\ resp.body.available
    /\ resp.body.suggested_spot = 2
    /\ Len(store) = 1
    /\ store[1].start_time = 0
    /\ store[1].vehicle_type = None
    /\ call.at = 0
    /\ now = 0
    /\ call.data.duration_hours = 200
    /\ call.data.duration_minutes = NoneNum
    /\ call.data.end_time = NoneNum
    /\ call.data.start_time = 0
    /\ call.data.vehicle_type = None
    /\ call.data.customer_name = Ann
    /\ call.data.email = NoneText

\* C6: a quote followed at once by reserve with the same parameters (explicit
\* start; the customer name and email that only reserve reads are well formed)
\* returns the quoted price and the suggested spot.
C6_RoundTrip ==
    [][(/\ call.op = "quote"
        /\ resp.status = 200
        /\ resp.body.available
        /\ call.data.start_time # NoneNum
        /\ call.data.customer_name # <<>>
        /\ call.data.email \in {NoneText, GoodEmail}
        /\ call'.op = "create_reservation"
        /\ call'.data = call.data)
       => (/\ resp'.status = 200
           /\ resp'.body.price_cents = resp.body.price_cents
           /\ resp'.body.spot_number = resp.body.suggested_spot)]_vars

\* The start a request resolves to at instant t.
ReqStart(data, t) == IF data.start_time = NoneNum THEN t ELSE data.start_time

\* The end a request resolves to: explicit end, else hours, else minutes
\* (create_reservation has no duration_minutes parameter); NoneNum when none.
ReqEnd(op, data, t) ==
    IF data.end_time # NoneNum THEN data.end_time
    ELSE IF data.duration_hours # NoneNum
    THEN ReqStart(data, t) + 36 * data.duration_hours
    ELSE IF data.duration_minutes # NoneNum /\ op # "create_reservation"
    THEN ReqStart(data, t) + 60 * data.duration_minutes
    ELSE NoneNum

\* A request passes validation: vehicle id (and, to reserve, customer name)
\* present, vehicle class absent or known, email absent or well formed, times
\* well formed, an end or duration given, and the end after the start.
Validates(op, data, t) ==
    /\ data.vehicle_reg \notin {<<>>, NoneText}
    /\ op # "quote" => data.customer_name \notin {<<>>, NoneText}
    /\ \/ data.vehicle_type \in {None, ""}
       \/ TypeLower(data.vehicle_type) \in {"car", "motorcycle", "truck"}
    /\ op # "quote" => (data.email \in {<<>>, NoneText} \/ _is_valid_email(data.email))
    /\ data.start_time # Malformed
    /\ data.end_time # Malformed
    /\ ReqEnd(op, data, t) # NoneNum
    /\ ReqEnd(op, data, t) > ReqStart(data, t)

\* C7: reserve answers 409 (and not the 400 of a validation error) exactly when
\* the request passes validation and every spot of the lot has a confirmed
\* reservation overlapping the interval; the table is then unchanged.
C7_CapacityExhausted ==
    call.op \in {"create_reservation", "reserve"} =>
        /\ resp.status = 409
           <=> (/\ Validates(call.op, call.data, call.at)
                /\ \A sp \in 1..LOT_CAPACITY :
                      Blocked(call.pre, sp, ReqStart(call.data, call.at),
                              ReqEnd(call.op, call.data, call.at)))
        /\ resp.status = 409 => store = call.pre

\* Every spot is booked for [0, 2h) and a request for [1h, 3h) is turned down.
C7_Witness ==
    /\ call.op = "create_reservation"
    /\ resp.status = 409
    /\ call.data.start_time = Hour
    /\ call.data.duration_hours = 200
    /\ \A i \in DOMAIN store : store[i].start_time = 0 /\ store[i].end_time = 2 * Hour
    /\ call.at = 0
    /\ now = 0

ClassRate(vehicle_type) ==
    CASE vehicle_type \in {"car", " car "} -> RATE_CENTS_PER_HOUR_CAR
      [] vehicle_type = "motorcycle" -> RATE_CENTS_PER_HOUR_MOTORCYCLE
      [] vehicle_type \in {"truck", "TRUCK"} -> RATE_CENTS_PER_HOUR_TRUCK
      [] OTHER -> RATE_CENTS_PER_HOUR

\* C9: price = ceil(max(floor(seconds / 60), MIN_CHARGE_MINUTES) / 60) * rate,
\* with the base rate for an unknown or absent class; the price is a natural
\* number, does not decrease with the duration, and is the one-hour rate for
\* every stay of at most 60 minutes.
C9_Price ==
    resp # NoResp =>
        LET secs == call.end - call.start
            billable == Max(secs \div 60, MIN_CHARGE_MINUTES)
            hours == CHOOSE h \in 1..(MaxPriceMinutes + 60) :
                        60 * (h - 1) < billable /\ billable <= 60 * h
            rate == ClassRate(call.vehicle_type)
        IN  /\ resp.price = hours * rate
            /\ resp.price \in Nat
            /\ secs <= 60 * 60 => resp.price = rate
            /\ \A shorter \in PriceSeconds :
                  (secs - 60 <= shorter /\ shorter <= secs)
                  => _compute_price_cents(call.start, call.start + shorter,
                                          call.vehicle_type) <= resp.price

\* A truck stays 61 minutes and pays two hours.
C9_Witness ==
    /\ resp # NoResp
    /\ call.end - call.start = 61 * 60
    /\ call.vehicle_type = "truck"
    /\ resp.price = 2 * RATE_CENTS_PER_HOUR_TRUCK
    /\ call.start = 0

\* The webhook just handled was a conversation turn of a session that stood at
\* CONFIRM_RESERVATION and carried an utterance.
AtConfirm ==
    /\ call.op = "cartesia_webhook"
    /\ call.data.call_id # ""
    /\ call.data.event_type = "message"
    /\ call.before.state = "confirm_reservation"
    /\ call.data.user_message # NoneText

\* The row that reserving with the fields the session had accumulated commits
\* on the table as it was before the turn.
Booked(row) ==
    /\ row.customer_name = call.before.customer_name
    /\ row.email = call.before.email
    /\ row.vehicle_reg = call.before.vehicle_reg
    /\ row.vehicle_type = call.before.vehicle_type
    /\ row.start_time = call.before.arrival_time
    /\ row.end_time = call.before.arrival_time + HoursDelta(call.before.duration_hours)
    /\ row.status = "confirmed"
    /\ ~Blocked(call.pre, row.spot_number, row.start_time, row.end_time)

\* C10: at CONFIRM an affirmative utterance reserves with the accumulated
\* fields and, when the reservation succeeds, the session is COMPLETED and
\* holds the reservation (a confirmation code and a spot, those of the row
\* added to the table) and the call ends; a non-affirmative utterance leaves
\* the session COMPLETED without a reservation, the table as it was, and the
\* call ends.
C10_Confirm ==
    AtConfirm =>
        LET session == sessions[call.data.call_id]
        IN  IF SaysAffirmative(Lower(call.data.user_message))
            THEN (call.down = 0
                  /\ create_reservation(call.pre, call.at,
                         ApiPayload(call.before, call.before.customer_name,
                                    call.before.email)).status = 200)
                 => /\ session.state = "completed"
                    /\ session.reservation # NoneDict
                    /\ session.reservation.confirmation_code # NoneText
                    /\ session.reservation.spot_number \in 1..LOT_CAPACITY
                    /\ session.reservation.spot_label # NoneText
                    /\ Len(store) = Len(call.pre) + 1
                    /\ SubSeq(store, 1, Len(call.pre)) = call.pre
                    /\ Booked(store[Len(store)])
                    /\ store[Len(store)].confirmation_code
                         = session.reservation.confirmation_code
                    /\ store[Len(store)].spot_number = session.reservation.spot_number
                    /\ resp.end_call
            ELSE /\ session.state = "completed"
                 /\ session.reservation = NoneDict
                 /\ store = call.pre
                 /\ resp.end_call

\* The caller said yes at CONFIRM while another booking already held spot 1
\* for the same hours: the session is COMPLETED with spot 2, and the call ends.
C10_Witness ==
    /\ AtConfirm
    /\ call.data.user_message = <<"y", "e", "s">>
    /\ Len(call.pre) = 1
    /\ Len(store) = 2
    /\ sessions[call.data.call_id].state = "completed"
    /\ sessions[call.data.call_id].reservation # NoneDict
    /\ sessions[call.data.call_id].reservation.spot_number = 2
    /\ resp.end_call
    /\ call.at = 0
    /\ call.before.vehicle_type = "truck"
    /\ call.before.arrival_time = Hour
    /\ call.before.email = GoodEmail
    /\ store[1].vehicle_type = "truck"
    /\ store[1].email = GoodEmail
    /\ store[1].start_time = Hour

\* The utterance holds a word of refusal: "no" or "not", as a word of its own.
Refuses(user_lower) ==
    \E i \in 1..Len(user_lower), word \in {<<"n", "o">>, <<"n", "o", "t">>} :
        /\ StartsWithAt(user_lower, i, word)
        /\ Boundary(user_lower, i)
        /\ Boundary(user_lower, i + Len(word))

\* C11: at CONFIRM an utterance that holds a refusal, with or without one of
\* the affirmative keywords beside it, books nothing: the table stays as it
\* was and the session gets no reservation.
C11_NoAmbiguousBooking ==
    (AtConfirm /\ Refuses(Lower(call.data.user_message)))
    => /\ store = call.pre
       /\ sessions[call.data.call_id].reservation = NoneDict

\* The sessions that exist and hold a reservation.
Holding == {c \in CallIds : sessions[c] # Absent /\ sessions[c].reservation # NoneDict}

\* The reservation a session holds is row `id` of the table: confirmed, with
\* the same code and the same spot, one of the lot's.
Committed(reservation) ==
    /\ reservation.id \in 1..Len(store)
    /\ store[reservation.id].status = "confirmed"
    /\ store[reservation.id].confirmation_code = reservation.confirmation_code
    /\ store[reservation.id].spot_number = reservation.spot_number
    /\ reservation.spot_number \in 1..LOT_CAPACITY
    /\ reservation.spot_label = _spot_label(LOT_NAME, reservation.spot_number)

\* C12: in every reachable state a session that holds a reservation holds one
\* that is committed in the table with a spot in 1..LOT_CAPACITY, and such a
\* session is COMPLETED.
C12_ReservationCommitted ==
    \A c \in Holding :
        /\ Committed(sessions[c].reservation)
        /\ sessions[c].state = "completed"

\* A session holds the second row of the table, on spot 2.
C12_Witness ==
    /\ \E c \in Holding :
           /\ sessions[c].reservation.id = 2
           /\ sessions[c].reservation.spot_number = 2
           /\ Len(store) = 2
    /\ call.at = 0
    /\ resp.message.id = "confirmed"
    /\ call.before.vehicle_type = "truck"
    /\ call.before.email = GoodEmail
    /\ call.before.arrival_time = Hour
    /\ call.data.user_message = <<"y", "e", "s">>
    /\ store[1].vehicle_type = "truck"
    /\ store[1].email = GoodEmail

\* C13: the dialogue changes the table only in a CONFIRM_RESERVATION turn with
\* an affirmative utterance, and then by adding one row: every other turn,
\* the end of a call and the loss of the session map leave the table as it was.
C13_StoreFrame ==
    call.op \in {"cartesia_webhook", "restart"}
    => \/ store = call.pre
       \/ /\ AtConfirm
          /\ SaysAffirmative(Lower(call.data.user_message))
          /\ Len(store) = Len(call.pre) + 1
          /\ SubSeq(store, 1, Len(call.pre)) = call.pre

\* A call ends while its session waits at CONFIRM_RESERVATION and the table
\* holds a row: the session is gone, the row is still there.
C13_Witness ==
    /\ call.op = "cartesia_webhook"
    /\ call.data.event_type = "call_ended"
    /\ call.before # Absent
    /\ call.before.state = "confirm_reservation"
    /\ sessions[call.data.call_id] = Absent
    /\ Len(store) = 1
    /\ store = call.pre
    /\ call.at = 0
    /\ call.before.vehicle_type = "truck"
    /\ call.before.arrival_time = Hour
    /\ call.before.email = GoodEmail
    /\ store[1].vehicle_type = "truck"
    /\ store[1].email = GoodEmail
    /\ store[1].start_time = Hour

\* The order of the states of a dialogue.
ForwardOrder ==
    <<"greeting", "collect_name", "collect_vehicle", "collect_arrival",
      "collect_duration", "collect_email", "confirm_reservation", "completed">>

\* The place of a state in the order (0 for a state that is not in it).
Rank(state) ==
    IF \E i \in 1..Len(ForwardOrder) : ForwardOrder[i] = state
    THEN CHOOSE i \in 1..Len(ForwardOrder) : ForwardOrder[i] = state
    ELSE 0

\* The state a webhook found its session in: a session that did not exist is
\* created in GREETING.
StateBefore == IF call.before = Absent THEN "greeting" ELSE call.before.state

\* The webhook just handled was a turn of the dialogue of a call.
AtTurn ==
    /\ call.op = "cartesia_webhook"
    /\ call.data.call_id # ""
    /\ call.data.event_type = "message"

\* C14: a turn of the dialogue leaves the state of the session where it was or
\* moves it to the next state of the order; no state is skipped, none is gone
\* back to, and no session is ever in PROVIDE_QUOTE.
C14_ForwardOrder ==
    /\ \A c \in CallIds : sessions[c] # Absent => Rank(sessions[c].state) > 0
    /\ AtTurn =>
          LET after == Rank(sessions[call.data.call_id].state)
          IN  after = Rank(StateBefore) \/ after = Rank(StateBefore) + 1

\* A turn at COLLECT_EMAIL that skipped the email moved to CONFIRM_RESERVATION,
\* and no further.
C14_Witness ==
    /\ AtTurn
    /\ StateBefore = "collect_email"
    /\ call.data.user_message = <<"s", "k", "i", "p">>
    /\ sessions[call.data.call_id].state = "confirm_reservation"
    /\ call.at = 0
    /\ call.down = 0
    /\ call.before.vehicle_type = "truck"
    /\ call.before.arrival_time = Hour
    /\ store = <<>>

\* The webhook just handled was a turn of a session that was COMPLETED.
AfterCompleted == AtTurn /\ StateBefore = "completed"

\* The turn left the session, field by field, and the table as they were, and
\* its reply does not depend on the utterance.
TerminalFrame ==
    /\ sessions[call.data.call_id] = call.before
    /\ store = call.pre
    /\ resp.context = call.before
    /\ resp.message.args = <<>>

\* C15: COMPLETED is terminal: a further utterance gets a generic message that
\* closes the call (end_call), and changes neither the session nor the table.
C15_Terminal == AfterCompleted => (TerminalFrame /\ resp.end_call)

\* What the code does keep of C15: nothing changes after COMPLETED.
C15_Unchanged == AfterCompleted => TerminalFrame

\* The webhook just handled carried a call id.
ForCall == call.op = "cartesia_webhook" /\ call.data.call_id # ""

\* A session in GREETING with every booking field empty.
Fresh(session) ==
    /\ session.state = "greeting"
    /\ session.customer_name = NoneText
    /\ session.vehicle_reg = NoneText
    /\ session.vehicle_type = None
    /\ session.arrival_time = NoneNum
    /\ session.duration_hours = NoneNum
    /\ session.email = NoneText
    /\ session.quote = NoneDict
    /\ session.reservation = NoneDict

\* What a webhook does with a call id that has no session: it works on a
\* fresh one.  A call start answers with it, a turn is the GREETING turn on it.
StartsFresh ==
    CASE call.data.event_type = "call_started" ->
            /\ Fresh(sessions[call.data.call_id])
            /\ resp.context = sessions[call.data.call_id]
      [] call.data.event_type = "message" ->
            /\ Fresh([sessions[call.data.call_id] EXCEPT !.state = "greeting"])
            /\ sessions[call.data.call_id].state = "collect_name"
            /\ resp.message = Msg("welcome", <<>>)
      [] OTHER -> TRUE

\* C16: the call-ended signal removes the session of its call id from the
\* session map, and a webhook that finds no session for its call id starts
\* from a fresh one: GREETING, every booking field empty.
C16_Teardown ==
    ForCall =>
        /\ call.data.event_type = "call_ended" => sessions[call.data.call_id] = Absent
        /\ call.before = Absent => StartsFresh

\* After a booking was made and its call ended, a turn for the same call id
\* is a GREETING turn on an empty session.
C16_Witness ==
    /\ ForCall
    /\ call.before = Absent
    /\ call.data.event_type = "message"
    /\ call.data.user_message = <<"h", "e", "l", "l", "o">>
    /\ call.at = 0
    /\ Len(store) = 1
    /\ store[1].email = NoneText
    /\ sessions[call.data.call_id].state = "collect_name"
    /\ sessions[call.data.call_id].customer_name = NoneText
    /\ store[1].vehicle_type = "truck"

\* The session a webhook works on when the map held `before` for its call.
SessionOf(before) == IF before = Absent THEN AgentContext ELSE before

\* The turn for `second` handled after the turn `first` has returned.
Then(first, t, second) ==
    handle_conversation(first.store, t, first.context, second, 0)

\* The session after two turns handled one after the other, from the session
\* and the table the two webhooks started from.
OneByOne(first, second) ==
    Then(handle_conversation(call.pre, call.at, SessionOf(call.before), first, 0),
         call.at, second).context

\* C17: webhooks of one call are serialized: when two turns handled together
\* have both returned, the session is the one that handling them one after
\* the other, in one of the two orders, leaves.
C17_Serialized ==
    (/\ call.op = "turns"
     /\ Len(call.heard) = 2
     /\ \A w \in Workers : threads[w] = Idle)
    => \/ sessions[TurnsCall] = OneByOne(call.heard[1], call.heard[2])
       \/ sessions[TurnsCall] = OneByOne(call.heard[2], call.heard[1])

\* A row as create_reservation and reserve make it: a range that is not
\* empty, a spot of the lot, confirmed, priced by the pricing function on its
\* own range and vehicle class.
WellFormed(row) ==
    /\ row.end_time > row.start_time
    /\ row.spot_number \in 1..LOT_CAPACITY
    /\ row.status = "confirmed"
    /\ row.price_cents \in Nat
    /\ row.price_cents = _compute_price_cents(row.start_time, row.end_time, row.vehicle_type)

\* C18: every row of the table has end > start, a spot number in
\* 1..LOT_CAPACITY, status confirmed, and the price the pricing function gives
\* for its interval and vehicle class.
C18_RowsWellFormed == \A i \in 1..Len(store) : WellFormed(store[i])

\* The table holds a truck's two hours at twice the truck rate, and a row of
\* the base rate.
C18_Witness ==
    /\ \E i, j \in 1..Len(store) :
           /\ store[i].vehicle_type = "TRUCK"
           /\ store[i].end_time - store[i].start_time = 2 * Hour
           /\ store[i].price_cents = 2 * RATE_CENTS_PER_HOUR_TRUCK
           /\ store[j].vehicle_type = None
           /\ store[j].price_cents = RATE_CENTS_PER_HOUR
    /\ Len(store) = 2
    /\ call.op = "create_reservation"
    /\ resp.status = 200
    /\ resp.body.id = 2
    /\ call.at = 0
    /\ now = 0
    /\ store[1].vehicle_type = "TRUCK"

\* The vehicle id of a code: the registration without spaces, in upper case.
NormalizedId(vehicle_reg) == Upper(RemoveSpaces(vehicle_reg))

\* RP-<ID>-<MMDDHHmm>: the prefix, the vehicle id, and the month, day, hour
\* and minute of the start (the minute of the year they name).
HasFormat(code, vehicle_reg, start) ==
    /\ Len(code) = 3
    /\ code[1] = "RP"
    /\ code[2] = NormalizedId(vehicle_reg)
    /\ \A i \in 1..Len(code[2]) : code[2][i] # " " /\ code[2][i] = UpperChar(code[2][i])
    /\ code[3] = (start % (365 * Day)) \div 60

\* The last request booked.
JustBooked ==
    /\ call.op \in {"create_reservation", "reserve"}
    /\ resp.status = 200

C20_CodeUnique ==
    \A i, j \in 1..Len(store) :
        store[i].confirmation_code = store[j].confirmation_code
        => /\ NormalizedId(store[i].vehicle_reg) = NormalizedId(store[j].vehicle_reg)
           /\ store[i].start_time = store[j].start_time

\* What the code does keep of C20: rows with one code are of one vehicle id
\* and start in the same minute of the year.
C20_UniquePerMinute ==
    \A i, j \in 1..Len(store) :
        store[i].confirmation_code = store[j].confirmation_code
        => /\ NormalizedId(store[i].vehicle_reg) = NormalizedId(store[j].vehicle_reg)
           /\ Stamp(store[i].start_time) = Stamp(store[j].start_time)

\* What only a reservation checks of a request is in order: a customer name,
\* and no email or a well-formed one.
BookableBy(data) ==
    /\ Truthy(data.customer_name)
    /\ ~Truthy(data.email) \/ _is_valid_email(data.email)

\* C21: create_reservation validates and resolves the end as quote does: a
\* request quote accepts (end given, or hours, or minutes) is not rejected by
\* create_reservation and books the same (start, end); a request quote
\* rejects, create_reservation rejects.
C21_SameResolution ==
    call.op = "create_reservation"
    => /\ (quote(call.pre, call.at, call.data).status = 200 /\ BookableBy(call.data))
          => /\ resp.status # 400
             /\ resp.status = 200
                => /\ resp.body.start_time
                        = quote(call.pre, call.at, call.data).body.start_time
                   /\ resp.body.end_time
                        = quote(call.pre, call.at, call.data).body.end_time
       /\ quote(call.pre, call.at, call.data).status = 400 => resp.status = 400

\* The answer is a booking, and the row it names is in the table as `res`.
CommittedAs(answer, res) ==
    /\ answer.status = 200
    /\ answer.body.id \in 1..Len(store)
    /\ store[answer.body.id] = res
    /\ answer.body.confirmation_code = res.confirmation_code

\* C22: the ticket email is scheduled only once the reservation is committed,
\* and however the task ends (sent, skipped for want of configuration, SMTP
\* error, an exception) the table, the committed row and the answer the caller
\* got are what they were.
C22_MailAfterCommit ==
    /\ \A w \in Workers :
          threads[w] # Idle => CommittedAs(threads[w].answer, threads[w].res)
    /\ call.op = "mail"
       => /\ store = call.pre
          /\ resp = call.before
          /\ CommittedAs(call.answer, call.res)

\* The SMTP server failed for the ticket of the second row: the row and the
\* table are as they were.
C22_Witness ==
    /\ call.op = "mail"
    /\ call.result = "ignored"
    /\ call.answer.body.id = 2
    /\ Len(store) = 2
    /\ store[2].email = GoodEmail
    /\ resp.status = 200
    /\ store[1].start_time = 0
    /\ store[2].start_time = 0
    /\ threads[1].pc = "idle"
    /\ threads[2].pc = "idle"
    /\ store[1].email = GoodEmail

\* C23: the email extractor turns the spoken 'john dot doe at gmail dot com'
\* into john.doe@gmail.com.
C23_SpokenAddress ==
    (call.op = "parse_email" /\ call.utterance = <<"j", "o", "h", "n", " ", "d", "o", "t", " ", "d", "o", "e", " ", "a", "t", " ", "g", "m", "a", "i", "l", " ", "d", "o", "t", " ", "c", "o", "m">>)
    => resp = ApiOk([email |-> <<"j", "o", "h", "n", ".", "d", "o", "e", "@", "g", "m", "a", "i", "l", ".", "c", "o", "m">>, valid |-> TRUE])

\* C24: the arrival extractor adds exactly one day when the instant it read
\* is more than five minutes before now, and leaves an instant that is five
\* minutes past, less, or in the future as it read it; at 10:00 'today at 3 PM'
\* is 15:00 of the day and 'today at 3 AM' is 03:00 of the next.
C24_NextDayRule ==
    (call.op = "parse_arrival" /\ resp.status = 200)
    => /\ ArrivalReading(call.at, Strip(call.utterance)) < call.at - 5 * 60
          => resp.body.start_time = ArrivalReading(call.at, Strip(call.utterance)) + Day
       /\ ArrivalReading(call.at, Strip(call.utterance)) >= call.at - 5 * 60
          => resp.body.start_time = ArrivalReading(call.at, Strip(call.utterance))
       /\ (call.at = 10 * Hour /\ call.utterance = <<"t", "o", "d", "a", "y", " ", "a", "t", " ", "3", " ", "P", "M">>)
          => resp.body.start_time = 15 * Hour
       /\ (call.at = 10 * Hour /\ call.utterance = <<"t", "o", "d", "a", "y", " ", "a", "t", " ", "3", " ", "A", "M">>)
          => resp.body.start_time = Day + 3 * Hour

\* At 15:00 the caller says 'today at 2:55 pm', five minutes past exactly: the
\* answer is 14:55 of the day.
C24_Witness ==
    /\ call.op = "parse_arrival"
    /\ call.at = 15 * Hour
    /\ call.utterance = <<"t", "o", "d", "a", "y", " ", "a", "t", " ", "2", ":", "5", "5", " ", "p", "m">>
    /\ resp = ApiOk([start_time |-> 14 * Hour + 55 * 60])

\* The turn just handled found the session as call_started had left it: the
\* greeting spoken, the session created and still in GREETING.
AfterCallStarted ==
    /\ AtTurn
    /\ call.before # Absent
    /\ call.before.state = "greeting"

\* C25: once call_started has spoken the greeting that asks for the name, the
\* next utterance is handled by the COLLECT_NAME rule: the session after the
\* turn is the one that rule leaves, the name stored when it has more than two
\* characters.
C25_NameAfterGreeting ==
    AfterCallStarted
    => sessions[call.data.call_id]
         = CollectName(call.pre, [call.before EXCEPT !.state = "collect_name"],
                       call.data.user_message).context

\* The answer /api/parse-duration gave to the turn just handled.
DurationHeard == parse_duration(call.data.user_message, call.before.arrival_time)

\* The answer /api/quote gave to the turn just handled, asked with the
\* duration just heard.
QuoteHeard ==
    quote(call.pre, call.at,
          ApiPayload([call.before EXCEPT !.duration_hours = DurationHeard.body.duration_hours],
                     NoneText, NoneText))

\* C26: a session in CONFIRM_RESERVATION holds a quote with a price.  A turn
\* leaves COLLECT_DURATION only when the duration was extracted and the quote
\* was answered, both without failure, and it stores that quote; a session
\* enters CONFIRM_RESERVATION from COLLECT_EMAIL only.
C26_QuoteAtConfirm ==
    /\ \A c \in CallIds :
          (sessions[c] # Absent /\ sessions[c].state = "confirm_reservation")
          => /\ sessions[c].quote # NoneDict
             /\ sessions[c].quote.price_cents > 0
    /\ (AtTurn /\ StateBefore = "collect_duration"
           /\ sessions[call.data.call_id].state # "collect_duration")
       => /\ call.data.user_message # NoneText
          /\ call.down \notin {1, 2}
          /\ DurationHeard.status = 200
          /\ QuoteHeard.status = 200
          /\ sessions[call.data.call_id].state = "collect_email"
          /\ sessions[call.data.call_id].quote = QuoteHeard.body
    /\ (AtTurn /\ sessions[call.data.call_id].state = "confirm_reservation")
       => StateBefore \in {"collect_email", "confirm_reservation"}

\* The caller skipped the email: the session came to CONFIRM_RESERVATION with
\* the quote of the turn before.
C26_Witness ==
    /\ AtTurn
    /\ StateBefore = "collect_email"
    /\ call.data.user_message = <<"s", "k", "i", "p">>
    /\ sessions[call.data.call_id].state = "confirm_reservation"
    /\ sessions[call.data.call_id].quote = call.before.quote
    /\ sessions[call.data.call_id].quote.price_cents = 1200
    /\ call.at = 0
    /\ call.pre = <<>>
    /\ call.down = 0
    /\ call.before.customer_name = <<"A", "n", "n">>
    /\ call.before.arrival_time = Hour

\* A request of the turn did not get through, or was answered with an error
\* status: call_parking_api raises on both.
Failed(down, result) == down \/ result.status # 200

\* A call_parking_api request of the turn just handled raised.
DownstreamRaised ==
    /\ AtTurn
    /\ CASE StateBefore = "collect_arrival" ->
               \/ call.data.user_message = NoneText
               \/ Failed(call.down = 1, parse_arrival(call.at, call.data.user_message))
         [] StateBefore = "collect_duration" ->
               \/ call.data.user_message = NoneText
               \/ Failed(call.down = 1, DurationHeard)
               \/ Failed(call.down = 2, QuoteHeard)
         [] StateBefore = "collect_email" ->
               /\ call.data.user_message # NoneText
               /\ ~SaysSkip(Lower(call.data.user_message))
               /\ Failed(call.down = 1, parse_email(call.data.user_message))
         [] StateBefore = "confirm_reservation" ->
               /\ call.data.user_message # NoneText
               /\ SaysAffirmative(Lower(call.data.user_message))
               /\ Failed(call.down = 1,
                         create_reservation(call.pre, call.at,
                             ApiPayload(call.before, call.before.customer_name,
                                        call.before.email)))
         [] OTHER -> FALSE

\* C27: when a downstream request of a turn raises (parse-arrival,
\* parse-duration, quote, parse-email, reservations) the turn asks again in the
\* state it was in: the state of the session does not move and the response
\* does not end the call.
C27_RepromptOnFailure ==
    DownstreamRaised
    => /\ sessions[call.data.call_id].state = StateBefore
       /\ resp.end_call = FALSE

\* The turn just handled asked again: the session is as it was, the message
\* is the re-prompt `id` and the call goes on.
AskedAgain(id) ==
    /\ sessions[call.data.call_id] = call.before
    /\ resp.message = Msg(id, <<>>)
    /\ resp.end_call = FALSE

\* The session after the turn is in state `state`.
NowIn(state) == sessions[call.data.call_id].state = state

\* C28: at COLLECT_EMAIL an utterance with a word of the skip vocabulary leaves
\* the session without email and moves it to CONFIRM_RESERVATION; any other
\* utterance goes to the email extractor: when that fails the turn asks again
\* and the state is still COLLECT_EMAIL, when it succeeds the address is stored
\* and the state is CONFIRM_RESERVATION.
C28_EmailTurn ==
    (AtTurn /\ StateBefore = "collect_email" /\ call.data.user_message # NoneText)
    => IF SaysSkip(Lower(call.data.user_message))
       THEN /\ sessions[call.data.call_id].email = NoneText
            /\ NowIn("confirm_reservation")
       ELSE IF Failed(call.down = 1, parse_email(call.data.user_message))
       THEN /\ AskedAgain("email_again")
            /\ NowIn("collect_email")
       ELSE /\ sessions[call.data.call_id].email
                  = _normalize_email_from_speech(call.data.user_message)
            /\ NowIn("confirm_reservation")

\* The caller spelled 'a at b dot co': the session holds a@b.co and is in
\* CONFIRM_RESERVATION.
C28_Witness ==
    /\ AtTurn
    /\ StateBefore = "collect_email"
    /\ call.data.user_message = <<"a", " ", "a", "t", " ", "b", " ", "d", "o", "t", " ", "c", "o">>
    /\ call.down = 0
    /\ call.at = 0
    /\ call.pre = <<>>
    /\ call.before.vehicle_type = "truck"
    /\ sessions[call.data.call_id].email = GoodEmail
    /\ NowIn("confirm_reservation")

\* The class COLLECT_VEHICLE stores for what the extractor returned.
ClassStored(vehicle_type) == IF vehicle_type = None THEN "car" ELSE vehicle_type

\* C29: at COLLECT_VEHICLE the session moves to COLLECT_ARRIVAL only when the
\* extractor found a vehicle identifier, and then holds the identifier and the
\* class found, 'car' when none was; when no identifier was found the turn
\* asks again and the state and the vehicle fields are as they were.
C29_VehicleTurn ==
    (AtTurn /\ StateBefore = "collect_vehicle" /\ call.data.user_message # NoneText)
    => IF Truthy(extract_vehicle_info(call.data.user_message).vehicle_reg)
       THEN /\ NowIn("collect_arrival")
            /\ sessions[call.data.call_id].vehicle_reg
                  = extract_vehicle_info(call.data.user_message).vehicle_reg
            /\ sessions[call.data.call_id].vehicle_type
                  = ClassStored(extract_vehicle_info(call.data.user_message).vehicle_type)
            /\ sessions[call.data.call_id].vehicle_type \in {"car", "motorcycle", "truck"}
       ELSE /\ AskedAgain("vehicle_again")
            /\ NowIn("collect_vehicle")

\* The caller gave the registration and no class: the session holds a car.
C29_Witness ==
    /\ AtTurn
    /\ StateBefore = "collect_vehicle"
    /\ call.data.user_message = <<"K", "A", "0", "1", "A", "B", "1", "2", "3", "4">>
    /\ call.at = 0
    /\ call.before.customer_name = Ann
    /\ sessions[call.data.call_id].vehicle_reg = Plate
    /\ sessions[call.data.call_id].vehicle_type = "car"
    /\ NowIn("collect_arrival")
    /\ store = <<>>

\* C30: at COLLECT_NAME an utterance of more than two characters once trimmed
\* is stored, trimmed, as the name and the session moves to COLLECT_VEHICLE; an
\* utterance of two characters or fewer once trimmed, or none, is asked again
\* and the state and the name are as they were.
C30_NameTurn ==
    (AtTurn /\ StateBefore = "collect_name")
    => IF call.data.user_message # NoneText /\ Len(Strip(call.data.user_message)) > 2
       THEN /\ sessions[call.data.call_id].customer_name = Strip(call.data.user_message)
            /\ NowIn("collect_vehicle")
       ELSE /\ AskedAgain("name_again")
            /\ NowIn("collect_name")

\* The caller said ' Ann ': the session holds 'Ann'.
C30_Witness ==
    /\ AtTurn
    /\ StateBefore = "collect_name"
    /\ call.data.user_message = <<" ", "A", "n", "n", " ">>
    /\ call.at = 0
    /\ sessions[call.data.call_id].customer_name = Ann
    /\ NowIn("collect_vehicle")
    /\ store = <<>>

\* The webhook `data`, met by the session `session` of its call, fails with an
\* exception no state handler catches: the call id is missing, or a turn
\* without utterance (user_message null) comes to a handler that reads it.
Unexpected(data, session) ==
    \/ data.call_id = ""
    \/ /\ data.event_type = "message"
       /\ data.user_message = NoneText
       /\ session # Absent
       /\ session.state \in {"collect_vehicle", "collect_email", "confirm_reservation"}

\* C31: a webhook that fails unexpectedly (missing call id, null utterance) is
\* answered with the generic apology and end_call = true, and the session map
\* and the table after it are what they were before it.
C31_ApologyKeepsSession ==
    [][(call'.op = "cartesia_webhook" /\ Unexpected(call'.data, call'.before))
       => /\ resp' = WebhookError
          /\ resp'.end_call
          /\ sessions' = sessions
          /\ store' = store]_vars

\* A turn without utterance met the session at COLLECT_EMAIL: the apology, and
\* the session still at COLLECT_EMAIL with all it had collected.
C31_Witness ==
    /\ AtTurn
    /\ call.data.user_message = NoneText
    /\ call.before # Absent
    /\ call.before.state = "collect_email"
    /\ call.before.vehicle_type = "truck"
    /\ call.at = 0
    /\ resp = WebhookError
    /\ sessions[call.data.call_id] = call.before
    /\ store = <<>>
    /\ call.down = 0
    /\ call.before.arrival_time = Hour

\* C32: when every utterance is extractable in the state it comes to, every
\* request is answered and a spot is free, the session that starts in GREETING
\* comes to COMPLETED, and every turn moves it one state on (seven turns).
C32_ReachesCompleted ==
    /\ <>CallsOver
    /\ [][call'.op = "cartesia_webhook"
           => Rank(sessions'[call'.data.call_id].state)
                = Rank(IF call'.before = Absent THEN "greeting" ELSE call'.before.state) + 1]_vars

\* The seventh turn was 'yes': the session is COMPLETED and the row is in the
\* table.
C32_Witness ==
    /\ AtTurn
    /\ StateBefore = "confirm_reservation"
    /\ call.data.user_message = <<"y", "e", "s">>
    /\ NowIn("completed")
    /\ Len(store) = 1
    /\ store[1].customer_name = Ann
    /\ Committed(sessions[call.data.call_id].reservation)
    /\ call.at = 0
    /\ call.before.arrival_time = Hour
    /\ call.before.duration_hours = 200
    /\ call.before.vehicle_type = "truck"
    /\ call.before.email = GoodEmail

\* The rows committed for the call of SpecTurns: the table is empty when its
\* session is created, the session is never torn down and no other call books.
RowsOfCall == {i \in 1..Len(store) : store[i].status = "confirmed"}

\* C33: between the creation and the teardown of a session at most one
\* reservation is committed for its call, also when the affirmative webhook of
\* CONFIRM_RESERVATION comes twice and the two are handled together.
C33_OneReservationPerCall == Cardinality(RowsOfCall) <= 1

\* C34: once call_ended has been handled the session map holds no entry for
\* the call until a new webhook of the call arrives: a turn that was waiting
\* for the API when the call ended does not bring the entry back.
C34_NoEntryAfterEnd ==
    [][(sessions[TurnsCall] = Absent /\ call'.op = "resume")
       => sessions'[TurnsCall] = Absent]_vars

\* The turn just handled was the CONFIRM_RESERVATION turn that booked.
BookedAtConfirm ==
    /\ AtTurn
    /\ StateBefore = "confirm_reservation"
    /\ NowIn("completed")
    /\ sessions[call.data.call_id].reservation # NoneDict

\* C35: in a dialogue that ends with a reservation the spot of the row is the
\* spot the quote of COLLECT_DURATION suggested, whatever other calls booked
\* between the two turns.
C35_QuotedSpotBooked ==
    BookedAtConfirm
    => sessions[call.data.call_id].reservation.spot_number
         = call.before.quote.suggested_spot

\* C36: a turn leaves COLLECT_DURATION for COLLECT_EMAIL only with a quote
\* that reports available = true and suggests a spot, and no session past
\* COLLECT_DURATION holds a quote with available = false.
C36_AvailableQuoteOnly ==
    /\ (AtTurn /\ StateBefore = "collect_duration" /\ NowIn("collect_email"))
       => /\ sessions[call.data.call_id].quote.available
          /\ sessions[call.data.call_id].quote.suggested_spot \in 1..LOT_CAPACITY
    /\ \A c \in CallIds :
          (sessions[c] # Absent /\ sessions[c].state \in {"collect_email", "confirm_reservation"})
          => sessions[c].quote.available

\* C37: a turn of the dialogue whose response has end_call = true leaves the
\* session of its call in COMPLETED, and every turn that moves a session into
\* COMPLETED answers with end_call = true.
C37_EndCallIffCompleted ==
    AtTurn
    => /\ resp.end_call => NowIn("completed")
       /\ (NowIn("completed") /\ StateBefore # "completed") => resp.end_call

\* The turn just handled asked again: its message is one of the re-prompts.
Reprompted ==
    /\ AtTurn
    /\ resp.message.id \in {"name_again", "vehicle_again", "arrival_again",
                            "duration_again", "email_again"}

\* C38: a turn that re-prompts leaves the whole session as it was, not only
\* its state; a COLLECT_DURATION turn whose duration was parsed and whose quote
\* failed leaves duration_hours as it was.
C38_RepromptKeepsSession ==
    Reprompted => sessions[call.data.call_id] = SessionOf(call.before)

\* The fields a session in `session.state` holds, state by state.
InStep(session) ==
    /\ Rank(session.state) > Rank("collect_name")
       => Truthy(session.customer_name)
    /\ Rank(session.state) > Rank("collect_vehicle")
       => /\ Truthy(session.vehicle_reg)
          /\ session.vehicle_type \in {"car", "motorcycle", "truck"}
    /\ Rank(session.state) > Rank("collect_arrival")
       => session.arrival_time \notin {NoneNum, Malformed}
    /\ Rank(session.state) > Rank("collect_duration")
       => /\ session.duration_hours > 0
          /\ session.quote # NoneDict
    /\ ~Truthy(session.email) \/ _is_valid_email(session.email)

\* C39: the fields of every session are filled in step with its state (name,
\* vehicle id and class, arrival, positive duration and quote, and an email
\* that is null or well formed), so the reservation a CONFIRM_RESERVATION
\* turn posts is never refused by validation (400).
C39_FieldsInStep ==
    /\ \A c \in CallIds : sessions[c] # Absent => InStep(sessions[c])
    /\ (AtConfirm /\ SaysAffirmative(Lower(call.data.user_message)))
       => create_reservation(call.pre, call.at,
              ApiPayload(call.before, call.before.customer_name,
                         call.before.email)).status # 400

\* A session at CONFIRM_RESERVATION holding every field, the email included,
\* was told 'yes' and its reservation was committed on the empty table.
C39_Witness ==
    /\ BookedAtConfirm
    /\ call.data.user_message = <<"y", "e", "s">>
    /\ call.before.email = GoodEmail
    /\ call.before.vehicle_type = "truck"
    /\ call.before.customer_name = <<"A", "n", "n">>
    /\ call.pre = <<>>
    /\ call.at = 0

\* C40: the interval quoted, and then reserved, through the dialogue is as
\* long as the minutes the duration extractor read from the utterance: the
\* quote runs from the arrival to the arrival plus those minutes, and the row
\* has the interval of the quote.
C40_LengthIsParsedMinutes ==
    /\ (AtTurn /\ StateBefore = "collect_duration" /\ NowIn("collect_email"))
       => /\ sessions[call.data.call_id].quote.start_time = call.before.arrival_time
          /\ sessions[call.data.call_id].quote.end_time
               = call.before.arrival_time
                 + MinutesDelta(_parse_duration_minutes(call.data.user_message))
    /\ BookedAtConfirm
       => /\ store[sessions[call.data.call_id].reservation.id].start_time
               = call.before.quote.start_time
          /\ store[sessions[call.data.call_id].reservation.id].end_time
               = call.before.quote.end_time

====
